---- MODULE Spec2Model ----
(***************************************************************************)
(* Model of the CSV import pipeline and of the categorisation rule engine  *)
(* of apps/transactions (services.py, models.py).                          *)
(*                                                                         *)
(* Spec       : import runs (TransactionImporter.import_csv) executing     *)
(*              against one store, sequentially or interleaved.            *)
(* SpecFault  : Spec plus a failing commit at the end of the atomic block. *)
(* SpecLive   : Spec with the fairness a running request has.              *)
(* SpecRules  : the rule cascade applied to one candidate transaction.     *)
(* SpecEdit   : one import run and the API requests that edit the store.   *)
(* SpecParse  : one import run of a file given by its CSV rows.            *)
(* SpecCells  : the parsers of the bank formats applied to rows of cells.  *)
(*                                                                         *)
(* Text that is matched by rules is a sequence of one-character strings,   *)
(* so that lower(), == and `in` are computed.  Optional values (None) are  *)
(* <<>> and a present value v is <<v>>.                                    *)
(***************************************************************************)
EXTENDS Integers, Sequences, FiniteSets, TLC

\* ------------------------------------------------------------------------
\* Bounds
\* ------------------------------------------------------------------------

\* The number of data rows of all imported files together.
MaxRows == 4

\* Import invocations (one batch each).  Two are enough for a re-import and
\* for a race on the unique constraint.
Runs == {1, 2}

\* ------------------------------------------------------------------------
\* Optional values
\* ------------------------------------------------------------------------

None == <<>>

Some(v) == <<v>>

IsSet(o) == o # <<>>

Val(o) == o[1]

\* ------------------------------------------------------------------------
\* Text
\* ------------------------------------------------------------------------

\* str.lower() on one character.
LowerChar(c) ==
    CASE c = "A" -> "a"
      [] c = "B" -> "b"
      [] c = "C" -> "c"
      [] OTHER -> c

\* str.lower()
Lower(s) == [i \in 1..Len(s) |-> LowerChar(s[i])]

\* Python `pattern in target` for strings.
IsSubstring(pattern, target) ==
    \E i \in 0..(Len(target) - Len(pattern)) :
        SubSeq(target, i + 1, i + Len(pattern)) = pattern

\* " ".join(filter(None, parts))
RECURSIVE JoinNonEmpty(_)
JoinNonEmpty(parts) ==
    IF parts = <<>> THEN <<>>
    ELSE LET rest == JoinNonEmpty(Tail(parts))
         IN  IF Head(parts) = <<>> THEN rest
             ELSE IF rest = <<>> THEN Head(parts)
             ELSE Head(parts) \o <<" ">> \o rest

\* ------------------------------------------------------------------------
\* CategoryRule
\* ------------------------------------------------------------------------

PROTIUCET == "protiucet"

MERCHANT == "merchant"

KEYWORD == "keyword"

MatchTypes == {PROTIUCET, MERCHANT, KEYWORD}

EXACT == "exact"

CONTAINS == "contains"

REGEX == "regex"

\* re.compile fails (re.error) on a pattern with an unterminated character
\* set; the patterns of the model are literals otherwise.
RegexMalformed(pattern) == \E i \in 1..Len(pattern) : pattern[i] = "["

\* re.compile fails with OverflowError, which is no re.error, on a
\* repetition count that is too large ("a{99999999999}"): in the model, a
\* pattern with a "{".
RegexOverflows(pattern) == \E i \in 1..Len(pattern) : pattern[i] = "{"

\* re.search(pattern, target, flags) for a well-formed literal pattern.
RegexSearch(pattern, target, ignorecase) ==
    IF ignorecase THEN IsSubstring(Lower(pattern), Lower(target))
    ELSE IsSubstring(pattern, target)

\* TransactionImporter._rule_matches
RuleMatches(rule, search_value) ==
    LET pattern == IF rule.case_sensitive THEN rule.match_value
                   ELSE Lower(rule.match_value)
        target  == IF rule.case_sensitive THEN search_value
                   ELSE Lower(search_value)
    IN  CASE rule.match_mode = EXACT    -> pattern = target
          [] rule.match_mode = CONTAINS -> IsSubstring(pattern, target)
          [] rule.match_mode = REGEX    ->
                 IF RegexMalformed(rule.match_value) THEN FALSE
                 ELSE RegexSearch(rule.match_value, search_value,
                                  ~rule.case_sensitive)
          [] OTHER -> FALSE

\* _rule_matches raises: re.search is called in regex mode only, and the
\* except clause catches re.error only.
RuleRaises(rule) ==
    rule.match_mode = REGEX /\ RegexOverflows(rule.match_value)

\* _find_matching_rule raises: a rule before the first match does.
RECURSIVE FirstMatchRaises(_, _)
FirstMatchRaises(rules, search_value) ==
    IF rules = <<>> THEN FALSE
    ELSE IF RuleRaises(Head(rules)) THEN TRUE
    ELSE IF RuleMatches(Head(rules), search_value) THEN FALSE
    ELSE FirstMatchRaises(Tail(rules), search_value)

\* TransactionImporter._find_matching_rule: the first rule of the bucket
\* that matches, or None.
RECURSIVE FirstMatch(_, _)
FirstMatch(rules, search_value) ==
    IF rules = <<>> THEN None
    ELSE IF RuleMatches(Head(rules), search_value) THEN Some(Head(rules))
    ELSE FirstMatch(Tail(rules), search_value)

FindMatchingRule(cache, match_type, search_value) ==
    FirstMatch(cache[match_type], search_value)

\* The keyword search text of apply_autodetection_rules.
SearchText(t) ==
    JoinNonEmpty(<<t.poznamka_zprava, t.vlastni_poznamka, t.nazev_protiuctu>>)

\* The cascade of apply_autodetection_rules: the rule that is applied to
\* transaction t, or None.
AfterProtiucet(cache, t) ==
    IF t.cislo_protiuctu # <<>>
    THEN FindMatchingRule(cache, PROTIUCET, t.cislo_protiuctu)
    ELSE None

\* A cascade that tries the merchant rules before the counterparty-account
\* rule that matched.
MerchantOverrides(cache, t) ==
    IF t.nazev_merchanta # <<>>
       /\ IsSet(FindMatchingRule(cache, MERCHANT, t.nazev_merchanta))
    THEN FindMatchingRule(cache, MERCHANT, t.nazev_merchanta)
    ELSE AfterProtiucet(cache, t)

AfterMerchant(cache, t) ==
    LET m == AfterProtiucet(cache, t)
    IN  IF m = None /\ t.nazev_merchanta # <<>>
        THEN FindMatchingRule(cache, MERCHANT, t.nazev_merchanta)
        ELSE m

MatchedRule(cache, t) ==
    LET m == AfterMerchant(cache, t)
    IN  IF m = None /\ SearchText(t) # <<>>
        THEN FindMatchingRule(cache, KEYWORD, SearchText(t))
        ELSE m

\* apply_autodetection_rules raises: a search of the cascade does, before
\* a rule has matched.
CascadeRaises(cache, t) ==
    LET account  == t.cislo_protiuctu # <<>>
        merchant == AfterProtiucet(cache, t) = None
                    /\ t.nazev_merchanta # <<>>
        keyword  == AfterMerchant(cache, t) = None /\ SearchText(t) # <<>>
    IN  IF account /\ FirstMatchRaises(cache[PROTIUCET], t.cislo_protiuctu)
        THEN TRUE
        ELSE IF merchant
                /\ FirstMatchRaises(cache[MERCHANT], t.nazev_merchanta)
        THEN TRUE
        ELSE keyword /\ FirstMatchRaises(cache[KEYWORD], SearchText(t))

\* A replacement instead of an overlay: the targets the rule leaves unset
\* are reset on the transaction.
ReplaceByRule(rule, t) ==
    [t EXCEPT
        !.prijem_vydaj      = rule.set_prijem_vydaj,
        !.vlastni_nevlastni = rule.set_vlastni_nevlastni,
        !.dane              = IF IsSet(rule.set_dane)
                              THEN Val(rule.set_dane) ELSE FALSE,
        !.druh              = rule.set_druh,
        !.detail            = rule.set_detail,
        !.kmen              = rule.set_kmen,
        !.mh_pct            = IF IsSet(rule.set_mh_pct)
                              THEN Val(rule.set_mh_pct) ELSE 0,
        !.sk_pct            = IF IsSet(rule.set_sk_pct)
                              THEN Val(rule.set_sk_pct) ELSE 0,
        !.xp_pct            = IF IsSet(rule.set_xp_pct)
                              THEN Val(rule.set_xp_pct) ELSE 0,
        !.fr_pct            = IF IsSet(rule.set_fr_pct)
                              THEN Val(rule.set_fr_pct) ELSE 0,
        !.projekt           = rule.set_projekt,
        !.produkt           = rule.set_produkt,
        !.podskupina        = rule.set_podskupina]

\* TransactionImporter._apply_rule_to_transaction
ApplyRuleToTransaction(rule, t) ==
    [t EXCEPT
        !.prijem_vydaj      = IF rule.set_prijem_vydaj # ""
                              THEN rule.set_prijem_vydaj ELSE @,
        !.vlastni_nevlastni = IF rule.set_vlastni_nevlastni # ""
                              THEN rule.set_vlastni_nevlastni ELSE @,
        !.dane              = IF IsSet(rule.set_dane)
                              THEN Val(rule.set_dane) ELSE @,
        !.druh              = IF rule.set_druh # "" THEN rule.set_druh ELSE @,
        !.detail            = IF rule.set_detail # ""
                              THEN rule.set_detail ELSE @,
        !.kmen              = IF rule.set_kmen # "" THEN rule.set_kmen ELSE @,
        !.mh_pct            = IF IsSet(rule.set_mh_pct)
                              THEN Val(rule.set_mh_pct) ELSE @,
        !.sk_pct            = IF IsSet(rule.set_sk_pct)
                              THEN Val(rule.set_sk_pct) ELSE @,
        !.xp_pct            = IF IsSet(rule.set_xp_pct)
                              THEN Val(rule.set_xp_pct) ELSE @,
        !.fr_pct            = IF IsSet(rule.set_fr_pct)
                              THEN Val(rule.set_fr_pct) ELSE @,
        !.projekt           = IF IsSet(rule.set_projekt)
                              THEN rule.set_projekt ELSE @,
        !.produkt           = IF IsSet(rule.set_produkt)
                              THEN rule.set_produkt ELSE @,
        !.podskupina        = IF IsSet(rule.set_podskupina)
                              THEN rule.set_podskupina ELSE @]

\* An accumulation: the first match of every dimension is applied, keyword
\* first and counterparty account last.
ApplyEveryMatch(cache, t) ==
    LET k  == IF SearchText(t) # <<>>
              THEN FindMatchingRule(cache, KEYWORD, SearchText(t)) ELSE None
        m  == IF t.nazev_merchanta # <<>>
              THEN FindMatchingRule(cache, MERCHANT, t.nazev_merchanta)
              ELSE None
        p  == AfterProtiucet(cache, t)
        t1 == IF IsSet(k) THEN ApplyRuleToTransaction(Val(k), t) ELSE t
        t2 == IF IsSet(m) THEN ApplyRuleToTransaction(Val(m), t1) ELSE t1
    IN  IF IsSet(p) THEN ApplyRuleToTransaction(Val(p), t2) ELSE t2

\* TransactionImporter.apply_autodetection_rules with a loaded cache.
ApplyAutodetectionRules(cache, t) ==
    LET m == MatchedRule(cache, t)
    IN  IF IsSet(m) THEN ApplyRuleToTransaction(Val(m), t) ELSE t

\* The orders under order_by("match_type", "-priority").
DescendingPriorityOrders(rules) ==
    {s \in [1..Cardinality(rules) -> rules] :
        /\ \A i, j \in 1..Cardinality(rules) : i # j => s[i] # s[j]
        /\ \A i, j \in 1..Cardinality(rules) :
               i < j => s[i].priority >= s[j].priority}

\* The orders in which the database may return the rows of `rules` under
\* order_by("match_type", "priority"): ascending priority, rows of equal
\* priority in any order.
PriorityOrders(rules) ==
    {s \in [1..Cardinality(rules) -> rules] :
        /\ \A i, j \in 1..Cardinality(rules) : i # j => s[i] # s[j]
        /\ \A i, j \in 1..Cardinality(rules) :
               i < j => s[i].priority <= s[j].priority}

\* The rules of a type without the filter is_active=True.
AllOfType(db, mt) == {r \in db : r.match_type = mt}

ActiveOfType(db, mt) == {r \in db : r.is_active /\ r.match_type = mt}

\* TransactionImporter._load_caches: the rule caches one load may build.
LoadCaches(db) ==
    {[mt \in MatchTypes |->
        IF mt = PROTIUCET THEN p ELSE IF mt = MERCHANT THEN m ELSE k] :
        p \in PriorityOrders(ActiveOfType(db, PROTIUCET)),
        m \in PriorityOrders(ActiveOfType(db, MERCHANT)),
        k \in PriorityOrders(ActiveOfType(db, KEYWORD))}

\* ------------------------------------------------------------------------
\* Value converters
\* ------------------------------------------------------------------------

\* TransactionImporter._parse_date on the literals of the model: the date a
\* literal denotes under the first strptime format that accepts it, or None
\* when no format accepts it (ValueError).
ParseDate(value) ==
    CASE value = "16.08.2025 05:42" -> Some("2025-08-16")
      [] value = "14.08.2025"       -> Some("2025-08-14")
      [] value = "14/08/2025"       -> Some("2025-08-14")
      [] value = "2025-08-14"       -> Some("2025-08-14")
      [] OTHER                      -> None

\* TransactionImporter._parse_decimal on the literals of the model (whole
\* crowns), or None when Decimal() rejects the cleaned text (ValueError).
ParseDecimal(value) ==
    CASE value = "100,00"    -> Some(100)
      [] value = "-50,00"    -> Some(0 - 50)
      [] value = "22 500,00" -> Some(22500)
      [] value = "0,00"      -> Some(0)
      [] OTHER               -> None

\* str.strip() on the external-ID cells of the model.
Strip(s) == IF s = " " THEN "" ELSE s

\* ------------------------------------------------------------------------
\* Error messages, as the sequence of the pieces an f-string joins
\* ------------------------------------------------------------------------

DuplicateMessage(id) == <<"Duplicate transaction ID: ", id>>

DateMessage(value) == <<"Unable to parse date: ", value>>

DecimalMessage(value) == <<"Unable to parse decimal: ", value>>

\* str() of TransactionManagementError raised for a query in an atomic
\* block that is marked for rollback.
BrokenTransactionMessage ==
    <<"An error occurred in the current transaction.">>

\* str() of the ValidationError of validate_constraints.
ConstraintMessage ==
    <<"Constraint unique_bank_transaction_id is violated.">>

\* str() of the IntegrityError of the INSERT: the text is the database
\* backend's (PostgreSQL, SQLite).
IntegrityMessages ==
    {<<"duplicate key value violates unique constraint">>,
     <<"UNIQUE constraint failed: transactions_transaction.id_transakce">>}

DeadlockMessage == <<"deadlock detected">>

\* str() of the OverflowError of re.compile.
OverflowMessage == <<"the repetition number is too large">>

\* str.lower() on one piece of a message.
LowerPiece(p) ==
    CASE p = "Duplicate transaction ID: " -> "duplicate transaction id: "
      [] p = "DUPLICATE"                  -> "duplicate"
      [] p = "Unable to parse date: "     -> "unable to parse date: "
      [] p = "Unable to parse decimal: "  -> "unable to parse decimal: "
      [] OTHER                            -> p

\* The lower-case pieces that contain the text "duplicate".
PiecesWithDuplicate ==
    {"duplicate transaction id: ", "duplicate",
     "duplicate key value violates unique constraint"}

\* The same test without lower(): "duplicate" in (r.error_message or "").
HasDuplicateMarkerNoLower(message) ==
    \E i \in 1..Len(message) : message[i] \in PiecesWithDuplicate

\* "duplicate" in (r.error_message or "").lower()
HasDuplicateMarker(message) ==
    \E i \in 1..Len(message) : LowerPiece(message[i]) \in PiecesWithDuplicate

\* ------------------------------------------------------------------------
\* Transaction
\* ------------------------------------------------------------------------

PRIJEM == "P"

VYDAJ == "V"

\* Transaction(**transaction_data): the fields the row supplies, the model's
\* defaults for the others.
NewTransaction(data, batch_id, row_number) ==
    [pk                |-> <<batch_id, row_number>>,
     import_batch_id   |-> batch_id,
     id_transakce      |-> data.id_transakce,
     datum             |-> data.datum,
     castka            |-> data.castka,
     cislo_protiuctu   |-> data.cislo_protiuctu,
     nazev_protiuctu   |-> data.nazev_protiuctu,
     nazev_merchanta   |-> data.nazev_merchanta,
     poznamka_zprava   |-> data.poznamka_zprava,
     vlastni_poznamka  |-> data.vlastni_poznamka,
     prijem_vydaj      |-> "",
     vlastni_nevlastni |-> "-",
     dane              |-> FALSE,
     druh              |-> "",
     detail            |-> "",
     kmen              |-> "",
     mh_pct            |-> 0,
     sk_pct            |-> 0,
     xp_pct            |-> 0,
     fr_pct            |-> 0,
     projekt           |-> None,
     produkt           |-> None,
     podskupina        |-> None]

\* ProductSubgroup.product_id: the product a subgroup belongs to.
ProductOf(podskupina) == IF podskupina = "s1" THEN "p1" ELSE "p2"

\* The keys of the errors full_clean() collects for t: required source
\* fields (clean_fields) and Transaction.clean.
ValidationErrors(t) ==
    LET total_pct == t.mh_pct + t.sk_pct + t.xp_pct + t.fr_pct
    IN  (IF t.datum = None THEN {"datum"} ELSE {})
        \cup (IF t.castka = None THEN {"castka"} ELSE {})
        \cup (IF total_pct # 0 /\ total_pct # 100 THEN {"mh_pct"} ELSE {})
        \cup (IF /\ IsSet(t.castka)
                 /\ \/ Val(t.castka) > 0 /\ t.prijem_vydaj = VYDAJ
                    \/ Val(t.castka) < 0 /\ t.prijem_vydaj = PRIJEM
              THEN {"prijem_vydaj"} ELSE {})
        \cup (IF /\ IsSet(t.podskupina) /\ IsSet(t.produkt)
                 /\ ProductOf(Val(t.podskupina)) # Val(t.produkt)
              THEN {"podskupina"} ELSE {})

\* str() of the ValidationError of full_clean().
ValidationMessage(t) ==
    <<"ValidationError">>
    \o (IF "datum" \in ValidationErrors(t)
        THEN <<"datum: This field cannot be null.">> ELSE <<>>)
    \o (IF "castka" \in ValidationErrors(t)
        THEN <<"castka: This field cannot be null.">> ELSE <<>>)
    \o (IF "mh_pct" \in ValidationErrors(t)
        THEN <<"mh_pct: Soucet KMEN % musi byt presne 100%.">> ELSE <<>>)
    \o (IF "prijem_vydaj" \in ValidationErrors(t)
        THEN <<"prijem_vydaj: castka a P/V nesouhlasi">> ELSE <<>>)
    \o (IF "podskupina" \in ValidationErrors(t)
        THEN <<"podskupina: nepatri k vybranemu produktu">> ELSE <<>>)

\* A derivation that does not look at the flag a rule has set.
DeriveAlways(t) ==
    IF IsSet(t.castka) /\ Val(t.castka) # 0
    THEN [t EXCEPT !.prijem_vydaj =
              IF Val(t.castka) > 0 THEN PRIJEM ELSE VYDAJ]
    ELSE t

\* "Auto-determine P/V from amount" of _process_row.
DerivePrijemVydaj(t) ==
    IF t.prijem_vydaj = "" /\ IsSet(t.castka) /\ Val(t.castka) # 0
    THEN [t EXCEPT !.prijem_vydaj =
              IF Val(t.castka) > 0 THEN PRIJEM ELSE VYDAJ]
    ELSE t

\* TransactionImporter._convert_row_data: blank cells are left out (the
\* field keeps its default), dates and decimals are parsed.  The result is
\* [error |-> None, data |-> ...] or [error |-> Some(message)] for the
\* first cell, in column order, that does not parse.
ConvertRowData(row) ==
    LET datum_blank  == row.datum = ""
        castka_blank == row.castka = ""
    IN  IF ~datum_blank /\ ParseDate(row.datum) = None
        THEN [error |-> Some(DateMessage(row.datum)), data |-> None]
        ELSE IF ~castka_blank /\ ParseDecimal(row.castka) = None
        THEN [error |-> Some(DecimalMessage(row.castka)), data |-> None]
        ELSE [error |-> None,
              data  |-> Some(
                [id_transakce     |-> Strip(row.id_transakce),
                 datum            |-> IF datum_blank THEN None
                                      ELSE ParseDate(row.datum),
                 castka           |-> IF castka_blank THEN None
                                      ELSE ParseDecimal(row.castka),
                 cislo_protiuctu  |-> row.cislo_protiuctu,
                 nazev_protiuctu  |-> row.nazev_protiuctu,
                 nazev_merchanta  |-> row.nazev_merchanta,
                 poznamka_zprava  |-> row.poznamka_zprava,
                 vlastni_poznamka |-> row.vlastni_poznamka])]

\* Transaction(**transaction_data) of _process_row.
Constructed(row, batch_id, row_number) ==
    NewTransaction(Val(ConvertRowData(row).data), batch_id, row_number)

\* _process_row from the conversion to the call of save(): the candidate
\* that save() is called on.
Candidate(row, batch_id, row_number, cache) ==
    DerivePrijemVydaj(
        ApplyAutodetectionRules(cache,
            NewTransaction(Val(ConvertRowData(row).data), batch_id,
                           row_number)))

\* ImportResult
Success(row_number) ==
    [success |-> TRUE, row_number |-> row_number, error_message |-> None]

Failure(row_number, message) ==
    [success |-> FALSE, row_number |-> row_number,
     error_message |-> Some(message)]

\* ------------------------------------------------------------------------
\* Inputs of the import runs
\* ------------------------------------------------------------------------

\* Counterparty account "1/2" and merchant name "Ab".
Account == <<"1", "/", "2">>

Merchant == <<"A", "b">>

\* One parsed row (the dict parse_csv yields for a data row).
Row(id, datum, castka, protiucet) ==
    [id_transakce     |-> id,
     datum            |-> datum,
     castka           |-> castka,
     cislo_protiuctu  |-> protiucet,
     nazev_protiuctu  |-> <<>>,
     nazev_merchanta  |-> <<>>,
     poznamka_zprava  |-> <<>>,
     vlastni_poznamka |-> <<>>]

\* The rows the files of the model are made of: valid rows with external
\* IDs "A", "B" and without one, a row with an unparsable date, a row with
\* an unparsable amount, and a row that the seeded rule makes invalid (a
\* positive amount flagged as expense).
RowInputs ==
    {Row("A", "14.08.2025", "100,00", <<>>),
     Row("B", "16.08.2025 05:42", "-50,00", Account),
     Row("", "14.08.2025", "100,00", <<>>),
     Row("B", "duplicate", "100,00", <<>>),
     Row("", "14.08.2025", "abc", <<>>),
     Row("", "14.08.2025", "100,00", Account)}

\* An uploaded file: either one that parse_csv rejects (it cannot be
\* decoded, or its transaction header row is not found) or one that parses
\* to `length` rows.  The content of a row is drawn from RowInputs when the
\* loop of import_csv reaches it.
Files ==
    {[parses |-> FALSE, length |-> 0]}
    \cup {[parses |-> TRUE, length |-> n] : n \in 0..MaxRows}

\* A CategoryRule row with the given match and targets, other targets unset.
Rule(name, match_type, match_mode, match_value, priority, pv, druh) ==
    [name                  |-> name,
     match_type            |-> match_type,
     match_mode            |-> match_mode,
     match_value           |-> match_value,
     case_sensitive        |-> FALSE,
     priority              |-> priority,
     is_active             |-> TRUE,
     set_prijem_vydaj      |-> pv,
     set_vlastni_nevlastni |-> "",
     set_dane              |-> None,
     set_druh              |-> druh,
     set_detail            |-> "",
     set_kmen              |-> "",
     set_mh_pct            |-> None,
     set_sk_pct            |-> None,
     set_xp_pct            |-> None,
     set_fr_pct            |-> None,
     set_projekt           |-> None,
     set_produkt           |-> None,
     set_podskupina        |-> None]

\* The rule table the import runs of Spec find: payments to Account are
\* expenses of kind "Fixni".
SeedRules == {Rule("najem", PROTIUCET, EXACT, Account, 100, VYDAJ, "Fixni")}

\* ------------------------------------------------------------------------
\* State
\* ------------------------------------------------------------------------

VARIABLES
    rulesDb,        \* table CategoryRule
    store,          \* table Transaction: the committed rows
    batch,          \* table ImportBatch: batch[r] is the record of run r
    pc,             \* where run r is in import_csv
    file,           \* the file run r was called with
    rows,           \* run r: rows, the result of parse_csv, as far as read
    results,        \* run r: results, one ImportResult per processed row
    rulesCache,     \* run r: self._rules_cache
    candidate,      \* run r: the transaction save() is being called on
    pending,        \* run r: rows inserted in the open atomic block
    needsRollback,  \* run r: the atomic block is marked for rollback
    returned,       \* run r: what import_csv gave its caller
    finishedBefore, \* run r: the runs that had ended when r was invoked
    ruleSet,        \* SpecRules: the rule table
    txn,            \* SpecRules: the candidate transaction
    applied,        \* SpecRules: the result of apply_autodetection_rules
    response,       \* SpecEdit: the last API request and its outcome
    upload,         \* SpecParse: the rows csv.reader gives for the file
    detected,       \* SpecParse: what detect_csv_format returned
    sheet,          \* SpecCells: the header row and the data rows of a file
    emitted         \* SpecCells: the records the parser of the format gave

\* The state of the import runs, the table of transactions aside.
runVars ==
    <<rulesDb, batch, pc, file, rows, results, rulesCache, candidate,
      pending, needsRollback, returned, finishedBefore>>

importVars == <<store, runVars>>

\* The variables the import runs leave alone.
parseVars == <<upload, detected, sheet, emitted>>

ruleVars == <<ruleSet, txn, applied, response, parseVars>>

vars == <<importVars, ruleVars>>

PROCESSING == "processing"

COMPLETED == "completed"

FAILED == "failed"

\* No ImportBatch row exists yet for the run.
NoBatch ==
    [status |-> "none", total_rows |-> 0, imported_count |-> 0,
     skipped_count |-> 0, error_count |-> 0, error_details |-> <<>>]

\* A batch created with the default status of the model, pending.
PendingBatch == [NoBatch EXCEPT !.status = "pending"]

\* ImportBatch.objects.create(filename=..., status=PROCESSING, ...)
CreatedBatch == [NoBatch EXCEPT !.status = PROCESSING]

Init ==
    /\ rulesDb = SeedRules
    /\ store = {}
    /\ batch = [r \in Runs |-> NoBatch]
    /\ pc = [r \in Runs |-> "idle"]
    /\ file = [r \in Runs |-> [parses |-> FALSE, length |-> 0]]
    /\ rows = [r \in Runs |-> <<>>]
    /\ results = [r \in Runs |-> <<>>]
    /\ rulesCache = [r \in Runs |-> None]
    /\ candidate = [r \in Runs |-> None]
    /\ pending = [r \in Runs |-> {}]
    /\ needsRollback = [r \in Runs |-> FALSE]
    /\ returned = [r \in Runs |-> "nothing"]
    /\ finishedBefore = [r \in Runs |-> {}]
    /\ ruleSet = {}
    /\ txn = None
    /\ applied = None
    /\ response = None
    /\ upload = <<>>
    /\ detected = None
    /\ sheet = None
    /\ emitted = None

\* ------------------------------------------------------------------------
\* import_csv
\* ------------------------------------------------------------------------

Ended(r) == pc[r] = "done"

\* The number of rows of the files given to the runs of S.
RECURSIVE RowsGiven(_)
RowsGiven(S) ==
    IF S = {} THEN 0
    ELSE LET r == CHOOSE x \in S : TRUE
         IN  file[r].length + RowsGiven(S \ {r})

\* import_csv is called with file f: the batch record is created.  Runs are
\* numbered in the order of their invocation.
StartImport(r, f) ==
    /\ pc[r] = "idle"
    /\ \A q \in Runs : q < r => pc[q] # "idle"
    /\ RowsGiven(Runs) + f.length <= MaxRows
    /\ batch' = [batch EXCEPT ![r] = CreatedBatch]
    /\ file' = [file EXCEPT ![r] = f]
    /\ finishedBefore' = [finishedBefore EXCEPT ![r] = {q \in Runs : Ended(q)}]
    /\ pc' = [pc EXCEPT ![r] = "parse"]
    /\ UNCHANGED <<rulesDb, store, rows, results, rulesCache, candidate,
                   pending, needsRollback, returned, ruleVars>>

\* str() of the ValueError parse_csv raises.
ParseErrorMessage == <<"Unable to decode CSV.">>

\* An except branch that raises again without saving the batch.
UnsavedBatch(b, message) == b

\* The except branch of import_csv: the batch is saved as failed with one
\* error descriptor and the exception is raised again.
FailedBatch(b, message) ==
    [b EXCEPT !.status = FAILED,
              !.error_details = <<[row |-> None, error |-> message]>>]

\* A load that keeps the cache the importer already holds, as the load of
\* apply_autodetection_rules does.
CachesIfUnset(current, db) ==
    IF current = None THEN LoadCaches(db) ELSE {Val(current)}

\* self._load_caches() of import_csv: the caches the run may hold after
\* it, whatever self._rules_cache was before.
CachesOfRun(current, db) == LoadCaches(db)

\* parse_csv, the save of total_rows and _load_caches; or the except branch
\* when parse_csv raises a ValueError with the given message.
ParseCsvRun(r, message) ==
    /\ pc[r] = "parse"
    /\ IF file[r].parses
       THEN /\ batch' = [batch EXCEPT ![r].total_rows = file[r].length]
            /\ \E c \in CachesOfRun(rulesCache[r], rulesDb) :
                   rulesCache' = [rulesCache EXCEPT ![r] = Some(c)]
            /\ pc' = [pc EXCEPT ![r] = "loop"]
            /\ UNCHANGED returned
       ELSE /\ batch' = [batch EXCEPT ![r] = FailedBatch(batch[r], message)]
            /\ returned' = [returned EXCEPT ![r] = "raised"]
            /\ pc' = [pc EXCEPT ![r] = "done"]
            /\ UNCHANGED rulesCache
    /\ UNCHANGED <<rulesDb, store, file, rows, results, candidate, pending,
                   needsRollback, finishedBefore>>

\* The step of a run whose file is given by what parse_csv makes of it.
ParseCsv(r) == ParseCsvRun(r, ParseErrorMessage) /\ UNCHANGED ruleVars

\* The number of the row the loop of run r is at (enumerate(rows, start=1)).
RowNumber(r) == Len(results[r]) + 1

\* The rows a query of run r sees: the committed ones and its own.
Visible(r) == store \cup pending[r]

\* Transaction.objects.filter(id_transakce=id).exists()
Exists(table, id) == \E t \in table : t.id_transakce = id

\* A table without the constraint unique_bank_transaction_id.
NoUniqueConstraint(table, id) == FALSE

\* The unique constraint unique_bank_transaction_id: a row with external ID
\* id cannot be added to a table that holds one with the same non-empty ID.
UniqueViolation(table, id) == id # "" /\ Exists(table, id)

\* The INSERT of run r waits while another open atomic block holds an
\* uncommitted row with the same external ID.
Blocked(r) ==
    /\ pc[r] = "save"
    /\ ~needsRollback[r]
    /\ ValidationErrors(Val(candidate[r])) = {}
    /\ ~UniqueViolation(store, Val(candidate[r]).id_transakce)
    /\ \E q \in Runs \ {r} :
           UniqueViolation(pending[q], Val(candidate[r]).id_transakce)

\* The rows of an atomic block after a database error in it: the block is
\* marked for rollback and nothing it wrote will be committed.
Aborted(writes) == {}

\* The end of a row: the ImportResult is appended, the loop goes on.
EndRow(r, result) ==
    /\ results' = [results EXCEPT ![r] = Append(@, result)]
    /\ candidate' = [candidate EXCEPT ![r] = None]
    /\ pc' = [pc EXCEPT ![r] = "loop"]

\* transaction.save() on candidate t and the rest of _process_row:
\* full_clean() (field validation, clean(), the constraint queries), then
\* the INSERT.  Any exception is caught and becomes a failed ImportResult;
\* a database error in save() marks the atomic block for rollback.
Save(r, t) ==
    LET n == RowNumber(r)
    IN  IF needsRollback[r]
        THEN /\ EndRow(r, Failure(n, BrokenTransactionMessage))
             /\ UNCHANGED <<pending, needsRollback>>
        ELSE IF ValidationErrors(t) # {}
        THEN /\ EndRow(r, Failure(n, ValidationMessage(t)))
             /\ UNCHANGED <<pending, needsRollback>>
        ELSE IF UniqueViolation(store, t.id_transakce)
        THEN \/ /\ EndRow(r, Failure(n, ConstraintMessage))
                /\ UNCHANGED <<pending, needsRollback>>
             \/ /\ \E m \in IntegrityMessages : EndRow(r, Failure(n, m))
                /\ pending' = [pending EXCEPT ![r] = Aborted(@)]
                /\ needsRollback' = [needsRollback EXCEPT ![r] = TRUE]
        ELSE /\ EndRow(r, Success(n))
             /\ pending' = [pending EXCEPT ![r] = @ \cup {t}]
             /\ UNCHANGED needsRollback

\* _process_row: the duplicate check, the conversion, the rules and the P/V
\* derivation, then save().  A row that is a duplicate, does not convert
\* or makes the rule matching raise ends with a failed ImportResult.  For
\* a candidate with an external ID the step ends before save(): other runs
\* may act between the duplicate check and the INSERT.
ProcessRow(r, row) ==
    /\ pc[r] = "loop"
    /\ RowNumber(r) <= file[r].length
    /\ rows' = [rows EXCEPT ![r] = Append(@, row)]
    /\ LET id  == Strip(row.id_transakce)
           fail(message) ==
               /\ EndRow(r, Failure(RowNumber(r), message))
               /\ UNCHANGED <<pending, needsRollback>>
           t   == Candidate(row, r, RowNumber(r), Val(rulesCache[r]))
       IN  IF id # "" /\ needsRollback[r]
           THEN fail(BrokenTransactionMessage)
           ELSE IF id # "" /\ Exists(Visible(r), id)
           THEN fail(DuplicateMessage(id))
           ELSE IF IsSet(ConvertRowData(row).error)
           THEN fail(Val(ConvertRowData(row).error))
           ELSE IF CascadeRaises(Val(rulesCache[r]),
                                 Constructed(row, r, RowNumber(r)))
           THEN fail(OverflowMessage)
           ELSE IF id = ""
           THEN Save(r, t)
           ELSE /\ candidate' = [candidate EXCEPT ![r] = Some(t)]
                /\ pc' = [pc EXCEPT ![r] = "save"]
                /\ UNCHANGED <<results, pending, needsRollback>>
    /\ UNCHANGED <<rulesDb, store, batch, file, rulesCache, returned,
                   finishedBefore, ruleVars>>

\* save() of a candidate with an external ID.
SaveRow(r) ==
    /\ pc[r] = "save"
    /\ ~Blocked(r)
    /\ Save(r, Val(candidate[r]))
    /\ UNCHANGED <<rulesDb, store, batch, file, rows, rulesCache, returned,
                   finishedBefore, ruleVars>>

\* Two runs wait for each other's uncommitted row: the database ends the
\* wait of one of them with an error, which save() raises.
DeadlockAbort(r) ==
    /\ Blocked(r)
    /\ \E q \in Runs \ {r} :
           /\ Blocked(q)
           /\ UniqueViolation(pending[q], Val(candidate[r]).id_transakce)
           /\ UniqueViolation(pending[r], Val(candidate[q]).id_transakce)
    /\ EndRow(r, Failure(RowNumber(r), DeadlockMessage))
    /\ pending' = [pending EXCEPT ![r] = Aborted(@)]
    /\ needsRollback' = [needsRollback EXCEPT ![r] = TRUE]
    /\ UNCHANGED <<rulesDb, store, batch, file, rows, rulesCache, returned,
                   finishedBefore, ruleVars>>

IsImported(res) == res.success

IsSkipped(res) == ~res.success /\ HasDuplicateMarker(Val(res.error_message))

\* An error count that takes in every row that was not imported.
IsAnyFailure(res) == ~res.success

IsError(res) == ~res.success /\ ~HasDuplicateMarker(Val(res.error_message))

\* sum(1 for r in results if ...)
ImportedCount(rs) == Cardinality({i \in 1..Len(rs) : IsImported(rs[i])})

SkippedCount(rs) == Cardinality({i \in 1..Len(rs) : IsSkipped(rs[i])})

ErrorCount(rs) == Cardinality({i \in 1..Len(rs) : IsError(rs[i])})

\* batch.error_details of a completed run.
RECURSIVE ErrorDetails(_)
ErrorDetails(rs) ==
    IF rs = <<>> THEN <<>>
    ELSE IF Head(rs).success THEN ErrorDetails(Tail(rs))
    ELSE <<[row |-> Some(Head(rs).row_number),
            error |-> Val(Head(rs).error_message)]>>
         \o ErrorDetails(Tail(rs))

\* "Update batch with results" of import_csv.
CompletedBatch(b, rs) ==
    [b EXCEPT !.imported_count = ImportedCount(rs),
              !.skipped_count  = SkippedCount(rs),
              !.error_count    = ErrorCount(rs),
              !.error_details  = ErrorDetails(rs),
              !.status         = COMPLETED]

\* The table after the atomic block of a run ends without an exception:
\* the block's rows are committed unless it is marked for rollback.
ExitAtomic(table, writes, rollback) ==
    IF rollback THEN table ELSE table \cup writes

\* Row writes made outside an atomic block: an exception keeps them.
KeepWrites(table, writes) == table \cup writes

\* The table after the atomic block ends with an exception.
Rollback(table, writes) == table

\* The loop is over: the atomic block ends, the batch is saved as completed
\* and the summary is returned.
FinishImport(r) ==
    /\ pc[r] = "loop"
    /\ RowNumber(r) > file[r].length
    /\ store' = ExitAtomic(store, pending[r], needsRollback[r])
    /\ pending' = [pending EXCEPT ![r] = {}]
    /\ needsRollback' = [needsRollback EXCEPT ![r] = FALSE]
    /\ batch' = [batch EXCEPT ![r] = CompletedBatch(@, results[r])]
    /\ returned' = [returned EXCEPT ![r] = "summary"]
    /\ pc' = [pc EXCEPT ![r] = "done"]
    /\ UNCHANGED <<rulesDb, file, rows, results, rulesCache, candidate,
                   finishedBefore, ruleVars>>

\* str() of the database error of a commit that fails.
CommitErrorMessage == <<"commit failed">>

\* The loop is over and the COMMIT at the end of the atomic block raises:
\* the block is rolled back and the exception reaches the except branch.
CommitFails(r) ==
    /\ pc[r] = "loop"
    /\ RowNumber(r) > file[r].length
    /\ ~needsRollback[r]
    /\ store' = Rollback(store, pending[r])
    /\ pending' = [pending EXCEPT ![r] = {}]
    /\ batch' = [batch EXCEPT ![r] = FailedBatch(@, CommitErrorMessage)]
    /\ returned' = [returned EXCEPT ![r] = "raised"]
    /\ pc' = [pc EXCEPT ![r] = "done"]
    /\ UNCHANGED <<rulesDb, file, rows, results, rulesCache, candidate,
                   needsRollback, finishedBefore, ruleVars>>

RunStep(r) ==
    \/ ParseCsv(r)
    \/ \E row \in RowInputs : ProcessRow(r, row)
    \/ SaveRow(r)
    \/ DeadlockAbort(r)
    \/ FinishImport(r)

Next ==
    \/ \E r \in Runs, f \in Files : StartImport(r, f)
    \/ \E r \in Runs : ParseCsv(r)
    \/ \E r \in Runs, row \in RowInputs : ProcessRow(r, row)
    \/ \E r \in Runs : SaveRow(r)
    \/ \E r \in Runs : DeadlockAbort(r)
    \/ \E r \in Runs : FinishImport(r)

Spec == Init /\ [][Next]_vars

NextFault == Next \/ \E r \in Runs : CommitFails(r)

SpecFault == Init /\ [][NextFault]_vars

\* Import runs over a rule table that holds, before the seeded rule, a
\* rule in regex mode whose pattern re.compile refuses: with re.error
\* ("[1") or with OverflowError ("1{9").  Such a rule is stored by
\* CategoryRule.objects.create() or by a PATCH of match_mode alone, neither
\* of which compiles the pattern.
RefusedPatterns == {<<"[", "1">>, <<"1", "{", "9">>}

RegexTables ==
    {SeedRules \cup {Rule("vzor", PROTIUCET, REGEX, p, 10, VYDAJ, "Var")} :
        p \in RefusedPatterns}

InitRegex ==
    /\ rulesDb \in RegexTables
    /\ store = {}
    /\ batch = [r \in Runs |-> NoBatch]
    /\ pc = [r \in Runs |-> "idle"]
    /\ file = [r \in Runs |-> [parses |-> FALSE, length |-> 0]]
    /\ rows = [r \in Runs |-> <<>>]
    /\ results = [r \in Runs |-> <<>>]
    /\ rulesCache = [r \in Runs |-> None]
    /\ candidate = [r \in Runs |-> None]
    /\ pending = [r \in Runs |-> {}]
    /\ needsRollback = [r \in Runs |-> FALSE]
    /\ returned = [r \in Runs |-> "nothing"]
    /\ finishedBefore = [r \in Runs |-> {}]
    /\ ruleSet = {}
    /\ txn = None
    /\ applied = None
    /\ response = None
    /\ upload = <<>>
    /\ detected = None
    /\ sheet = None
    /\ emitted = None

SpecRegex == InitRegex /\ [][Next]_vars

\* ------------------------------------------------------------------------
\* One importer, several runs, rules edited meanwhile (SpecCache)
\* ------------------------------------------------------------------------

\* The rule tables the rule API moves between: the seeded rule, the rule
\* edited to another kind, the rule deactivated, no rule.
CacheTables ==
    {SeedRules,
     {Rule("najem", PROTIUCET, EXACT, Account, 100, VYDAJ, "Var")},
     {[u EXCEPT !.is_active = FALSE] : u \in SeedRules},
     {}}

\* A rule is created, edited, deactivated or deleted through the rule API
\* while import runs are in progress.
ChangeRules ==
    /\ \E table \in CacheTables \ {rulesDb} : rulesDb' = table
    /\ UNCHANGED <<store, batch, pc, file, rows, results, rulesCache,
                   candidate, pending, needsRollback, returned,
                   finishedBefore, ruleVars>>

\* import_csv is called again on the importer of run r - 1, after that run
\* has returned or raised: self._rules_cache is what that run left.
ImportAgain(r, f) ==
    /\ r - 1 \in Runs
    /\ Ended(r - 1)
    /\ pc[r] = "idle"
    /\ RowsGiven(Runs) + f.length <= MaxRows
    /\ batch' = [batch EXCEPT ![r] = CreatedBatch]
    /\ file' = [file EXCEPT ![r] = f]
    /\ finishedBefore' = [finishedBefore EXCEPT ![r] = {q \in Runs : Ended(q)}]
    /\ rulesCache' = [rulesCache EXCEPT ![r] = rulesCache[r - 1]]
    /\ pc' = [pc EXCEPT ![r] = "parse"]
    /\ UNCHANGED <<rulesDb, store, rows, results, candidate, pending,
                   needsRollback, returned, ruleVars>>

NextCache ==
    \/ \E f \in Files : StartImport(1, f)
    \/ \E r \in Runs, f \in Files : ImportAgain(r, f)
    \/ \E r \in Runs : ParseCsv(r)
    \/ \E r \in Runs, row \in RowInputs : ProcessRow(r, row)
    \/ \E r \in Runs : SaveRow(r)
    \/ \E r \in Runs : FinishImport(r)
    \/ ChangeRules

SpecCache == Init /\ [][NextCache]_vars

\* A run that has been invoked keeps running: the request thread or the
\* management command is scheduled until import_csv returns or raises.
SpecLive ==
    Init /\ [][NextFault]_vars /\ \A r \in Runs : WF_vars(RunStep(r))

\* ------------------------------------------------------------------------
\* apply_autodetection_rules on one transaction
\* ------------------------------------------------------------------------

Keyword == <<"n", "a", "j", "e", "m">>

\* The rules a rule table of SpecRules is made of: two counterparty-account
\* rules, a merchant rule and a keyword rule, each setting its own druh and
\* its own choice of the other targets.
\* match_value is a required field of CategoryRule: no rule has an empty one.
RulePool ==
    {Rule("ucet", PROTIUCET, EXACT, Account, 10, VYDAJ, "Fixni"),
     [Rule("ucet-cast", PROTIUCET, CONTAINS, <<"/">>, 20, "", "Variabilni")
        EXCEPT !.set_detail = "Najem", !.set_mh_pct = Some(100)],
     [Rule("obchod", MERCHANT, CONTAINS, <<"a">>, 10, "", "Nakup")
        EXCEPT !.set_kmen = "MH", !.set_dane = Some(FALSE),
               !.set_sk_pct = Some(0), !.set_vlastni_nevlastni = "N"],
     [Rule("slovo", KEYWORD, REGEX, Keyword, 10, PRIJEM, "")
        EXCEPT !.set_projekt = Some("4cfuture"), !.set_produkt = Some("p2"),
               !.set_podskupina = Some("s1")]}

\* The rule tables: every rule of the pool is absent, inactive or active.
RuleTables ==
    {active \cup {[r EXCEPT !.is_active = FALSE] : r \in inactive} :
        active \in SUBSET RulePool,
        inactive \in SUBSET RulePool}

\* A transaction as _process_row constructs it, not yet categorized.
FreshTransaction(castka, a, m, z) ==
    NewTransaction(
        [id_transakce     |-> "",
         datum            |-> Some("2025-08-14"),
         castka           |-> Some(castka),
         cislo_protiuctu  |-> a,
         nazev_protiuctu  |-> <<>>,
         nazev_merchanta  |-> m,
         poznamka_zprava  |-> z,
         vlastni_poznamka |-> <<>>], 0, 0)

\* A persisted transaction that a user has categorized in part (druh is
\* still empty: the transaction counts as uncategorized).
PartlyCategorized(t) ==
    [t EXCEPT !.prijem_vydaj      = IF Val(t.castka) > 0 THEN PRIJEM
                                    ELSE IF Val(t.castka) < 0 THEN VYDAJ
                                    ELSE "",
              !.vlastni_nevlastni = "V",
              !.dane              = TRUE,
              !.detail            = "puvodni",
              !.kmen              = "SK",
              !.sk_pct            = 100,
              !.projekt           = Some("gap"),
              !.produkt           = Some("p1")]

\* The transactions the rules are applied to: with and without a
\* counterparty account, a merchant name and a message; with a negative, a
\* zero and a positive amount; fresh and partly categorized.
TxnInputs ==
    LET fresh == {FreshTransaction(c, a, m, z) :
                    c \in {0 - 50, 0, 100},
                    a \in {<<>>, Account, <<"3", "/", "4">>, <<"5">>},
                    m \in {<<>>, Merchant, <<"X">>},
                    z \in {<<>>, Keyword, <<"x">>}}
    IN  fresh \cup {PartlyCategorized(t) : t \in fresh}

InitRules ==
    /\ rulesDb = SeedRules
    /\ store = {}
    /\ batch = [r \in Runs |-> NoBatch]
    /\ pc = [r \in Runs |-> "idle"]
    /\ file = [r \in Runs |-> [parses |-> FALSE, length |-> 0]]
    /\ rows = [r \in Runs |-> <<>>]
    /\ results = [r \in Runs |-> <<>>]
    /\ rulesCache = [r \in Runs |-> None]
    /\ candidate = [r \in Runs |-> None]
    /\ pending = [r \in Runs |-> {}]
    /\ needsRollback = [r \in Runs |-> FALSE]
    /\ returned = [r \in Runs |-> "nothing"]
    /\ finishedBefore = [r \in Runs |-> {}]
    /\ ruleSet \in RuleTables
    /\ txn \in {Some(t) : t \in TxnInputs}
    /\ applied = None
    /\ response = None
    /\ upload = <<>>
    /\ detected = None
    /\ sheet = None
    /\ emitted = None

\* _load_caches on the rule table, then apply_autodetection_rules on the
\* transaction, as apply_to_uncategorized calls them: matched_rule, the
\* transaction it returns and what full_clean() would say of it.
ApplyRules ==
    /\ applied = None
    /\ \E cache \in LoadCaches(ruleSet) :
           LET t == ApplyAutodetectionRules(cache, Val(txn))
           IN  /\ ~CascadeRaises(cache, Val(txn))
               /\ applied' = Some([matched_rule |-> MatchedRule(cache, Val(txn)),
                                transaction  |-> t,
                                derived      |-> FALSE,
                                candidate    |-> t,
                                errors       |-> ValidationErrors(t)])
    /\ UNCHANGED <<importVars, ruleSet, txn, response, parseVars>>

\* The same on a transaction _process_row has just constructed, followed
\* by the derivation of P/V: the candidate save() is called on.
ProcessCandidate ==
    /\ applied = None
    /\ Val(txn) \in {FreshTransaction(Val(Val(txn).castka),
                                      Val(txn).cislo_protiuctu,
                                      Val(txn).nazev_merchanta,
                                      Val(txn).poznamka_zprava)}
    /\ \E cache \in LoadCaches(ruleSet) :
           LET t == ApplyAutodetectionRules(cache, Val(txn))
               c == DerivePrijemVydaj(t)
           IN  /\ ~CascadeRaises(cache, Val(txn))
               /\ applied' = Some([matched_rule |-> MatchedRule(cache, Val(txn)),
                                transaction  |-> t,
                                derived      |-> TRUE,
                                candidate    |-> c,
                                errors       |-> ValidationErrors(c)])
    /\ UNCHANGED <<importVars, ruleSet, txn, response, parseVars>>

NextRules == ApplyRules \/ ProcessCandidate

SpecRules == InitRules /\ [][NextRules]_vars

\* ------------------------------------------------------------------------
\* SpecTies: the rule cascade over rule tables with equal priorities
\* ------------------------------------------------------------------------

\* Rules of which two of the counterparty-account dimension and two of the
\* keyword dimension have the same priority and match the same values.
TiePool ==
    {Rule("alfa", PROTIUCET, EXACT, Account, 10, VYDAJ, "Fixni"),
     Rule("beta", PROTIUCET, CONTAINS, <<"/">>, 10, "", "Variabilni"),
     Rule("omega", PROTIUCET, CONTAINS, <<"1">>, 20, "", "Ostatni"),
     Rule("gama", KEYWORD, CONTAINS, <<"n">>, 10, "", "Najem"),
     Rule("delta", KEYWORD, REGEX, Keyword, 10, PRIJEM, "Prijem")}

InitTies ==
    /\ rulesDb = SeedRules
    /\ store = {}
    /\ batch = [r \in Runs |-> NoBatch]
    /\ pc = [r \in Runs |-> "idle"]
    /\ file = [r \in Runs |-> [parses |-> FALSE, length |-> 0]]
    /\ rows = [r \in Runs |-> <<>>]
    /\ results = [r \in Runs |-> <<>>]
    /\ rulesCache = [r \in Runs |-> None]
    /\ candidate = [r \in Runs |-> None]
    /\ pending = [r \in Runs |-> {}]
    /\ needsRollback = [r \in Runs |-> FALSE]
    /\ returned = [r \in Runs |-> "nothing"]
    /\ finishedBefore = [r \in Runs |-> {}]
    /\ ruleSet \in SUBSET TiePool
    /\ txn \in {Some(t) : t \in TxnInputs}
    /\ applied = None
    /\ response = None
    /\ upload = <<>>
    /\ detected = None
    /\ sheet = None
    /\ emitted = None

SpecTies == InitTies /\ [][NextRules]_vars

\* ------------------------------------------------------------------------
\* The API requests that write transactions, next to an import run
\* ------------------------------------------------------------------------

\* The rows of the file an import run of SpecEdit is called with.
MaxEditRows == 1

\* The transactions created by create-manual.
MaxManual == 1

PctFields == {"mh_pct", "sk_pct", "xp_pct", "fr_pct"}

\* TransactionDetailSerializer.Meta.read_only_fields, as far as the model
\* has the fields.
ReadOnlyFields ==
    {"datum", "castka", "cislo_protiuctu", "nazev_protiuctu",
     "nazev_merchanta", "poznamka_zprava", "vlastni_poznamka",
     "id_transakce", "import_batch_id"}

\* The fields TransactionBulkUpdateSerializer declares.
BulkFields ==
    {"prijem_vydaj", "vlastni_nevlastni", "dane", "druh", "detail", "kmen",
     "mh_pct", "sk_pct", "xp_pct", "fr_pct", "projekt", "produkt",
     "podskupina"}

\* The fields of request data that a serializer with the given fields
\* keeps: the others are dropped without an error.
Keep(data, fields) == [f \in DOMAIN data \cap fields |-> data[f]]

\* setattr(instance, field, value) for every field of data.
WithFields(t, data) ==
    [f \in DOMAIN t |-> IF f \in DOMAIN data THEN data[f] ELSE t[f]]

PctSum(t) == t.mh_pct + t.sk_pct + t.xp_pct + t.fr_pct

\* TransactionDetailSerializer.validate(data) on an instance: the KMEN
\* sum and the subgroup of the product.
DetailValid(t, data) ==
    LET u          == WithFields(t, Keep(data, PctFields))
        podskupina == IF "podskupina" \in DOMAIN data
                      THEN data["podskupina"] ELSE None
        produkt    == IF "produkt" \in DOMAIN data
                      THEN data["produkt"] ELSE t.produkt
    IN  /\ PctSum(u) \in {0, 100}
        /\ ~(/\ IsSet(podskupina) /\ IsSet(produkt)
              /\ ProductOf(Val(podskupina)) # Val(produkt))

\* PATCH /transactions/{id}/ bodies: a flag, percentages, and a body that
\* names a bank field next to an app field.
PatchInputs ==
    {"prijem_vydaj" :> VYDAJ,
     "prijem_vydaj" :> PRIJEM,
     "mh_pct" :> 50,
     "mh_pct" :> 100,
     ("castka" :> Some(5)) @@ ("druh" :> "Oprava")}

\* PATCH: read-only fields are dropped, validate(), then update() sets the
\* fields and calls save(), which runs full_clean().
Patch(t, data) ==
    LET validated == Keep(data, DOMAIN t \ ReadOnlyFields)
        u         == WithFields(t, validated)
        ok        == DetailValid(t, validated) /\ ValidationErrors(u) = {}
    IN  /\ store' = IF ok THEN (store \ {t}) \cup {u} ELSE store
        /\ response' = Some([op |-> "patch", pks |-> {t.pk}, data |-> data,
                             ok |-> ok])
        /\ UNCHANGED <<runVars, ruleSet, txn, applied, parseVars>>

\* POST /transactions/bulk_update/ bodies.
BulkInputs ==
    {"prijem_vydaj" :> VYDAJ,
     [f \in PctFields |-> 25],
     "mh_pct" :> 50,
     [f \in PctFields |-> IF f = "mh_pct" THEN 50 ELSE 0],
     ("id_transakce" :> "Z") @@ ("druh" :> "Oprava")}

\* A validate() that checks the sum only when all four percentages are
\* given.
SumOnlyWhenComplete(data) ==
    DOMAIN data \cap PctFields = PctFields =>
        data["mh_pct"] + data["sk_pct"] + data["xp_pct"] + data["fr_pct"]
            \in {0, 100}

\* TransactionBulkUpdateSerializer.validate: when a percentage is given all
\* four are, and they sum to 0 or 100.
BulkValid(data) ==
    LET provided == DOMAIN data \cap PctFields
    IN  provided # {} =>
            /\ provided = PctFields
            /\ data["mh_pct"] + data["sk_pct"] + data["xp_pct"]
                   + data["fr_pct"] \in {0, 100}

\* The check constraint kmen_pct_sum_equals_100_or_zero of the table.
CheckConstraintHolds(t) ==
    \/ t.mh_pct = 0 /\ t.sk_pct = 0 /\ t.xp_pct = 0 /\ t.fr_pct = 0
    \/ t.mh_pct >= 0 /\ t.sk_pct >= 0 /\ t.xp_pct >= 0 /\ t.fr_pct >= 0

\* bulk_update: validate(), then
\* Transaction.objects.filter(id__in=ids).update(**update_data) in an
\* atomic block; the rows are written without save() and full_clean().
BulkUpdate(ids, data) ==
    LET update_data == Keep(data, BulkFields)
        updated     == {IF t.pk \in ids THEN WithFields(t, update_data)
                        ELSE t : t \in store}
        ok          == /\ BulkValid(update_data)
                       /\ \A t \in updated : CheckConstraintHolds(t)
    IN  /\ store' = IF ok THEN updated ELSE store
        /\ response' = Some([op |-> "bulk", pks |-> ids, data |-> data,
                             ok |-> ok])
        /\ UNCHANGED <<runVars, ruleSet, txn, applied, parseVars>>

\* POST /transactions/create-manual/ bodies.
ManualInputs ==
    {("castka" :> Some(100)) @@ ("prijem_vydaj" :> VYDAJ),
     "castka" :> Some(100),
     ("castka" :> Some(0 - 50)) @@ ("mh_pct" :> 50),
     ("castka" :> Some(0 - 50)) @@ ("mh_pct" :> 100),
     ("castka" :> Some(100)) @@ ("nazev_protiuctu" :> <<"n">>),
     ("castka" :> Some(0 - 50)) @@ ("nazev_protiuctu" :> <<"n">>)}

\* The fields ManualTransactionSerializer declares, as far as the model
\* has them.
ManualFields ==
    {"datum", "castka", "poznamka_zprava", "nazev_protiuctu"}
    \cup BulkFields

ManualCreated == {t \in store : t.pk[1] = 0}

\* create_manual: validate(), Transaction.objects.create() (save() with
\* full_clean()), then P/V from the sign of the amount when none was given.
CreateManual(data) ==
    LET blank == NewTransaction(
                    [id_transakce     |-> "",
                     datum            |-> Some("2025-08-14"),
                     castka           |-> None,
                     cislo_protiuctu  |-> <<>>,
                     nazev_protiuctu  |-> <<>>,
                     nazev_merchanta  |-> <<>>,
                     poznamka_zprava  |-> <<>>,
                     vlastni_poznamka |-> <<>>],
                    0, Cardinality(ManualCreated) + 1)
        t     == WithFields(blank, Keep(data, ManualFields))
        ok    == PctSum(t) \in {0, 100} /\ ValidationErrors(t) = {}
        saved == IF t.prijem_vydaj = ""
                 THEN [t EXCEPT !.prijem_vydaj =
                          IF Val(t.castka) > 0 THEN PRIJEM ELSE VYDAJ]
                 ELSE t
    IN  /\ Cardinality(ManualCreated) < MaxManual
        /\ store' = IF ok THEN store \cup {saved} ELSE store
        /\ response' = Some([op |-> "create", pks |-> {blank.pk},
                             data |-> data, ok |-> ok])
        /\ UNCHANGED <<runVars, ruleSet, txn, applied, parseVars>>

\* The loop of apply_to_uncategorized over the transactions in `order`:
\* the rules are applied, a transaction whose P/V or druh changed is
\* saved; a save() that raises ends the request, the earlier saves stay.
RECURSIVE ApplyInOrder(_, _, _)
ApplyInOrder(order, table, cache) ==
    IF order = <<>> THEN [table |-> table, ok |-> TRUE]
    ELSE LET t == Head(order)
             u == ApplyAutodetectionRules(cache, t)
         IN  IF CascadeRaises(cache, t)
             THEN [table |-> table, ok |-> FALSE]
             ELSE IF u.prijem_vydaj = t.prijem_vydaj /\ u.druh = t.druh
             THEN ApplyInOrder(Tail(order), table, cache)
             ELSE IF ValidationErrors(u) # {}
             THEN [table |-> table, ok |-> FALSE]
             ELSE ApplyInOrder(Tail(order), (table \ {t}) \cup {u}, cache)

\* A query without the filter: every transaction.
EveryTransaction(table) == table

\* Transaction.objects.filter(Q(prijem_vydaj="") | Q(druh=""))
Uncategorized(table) == {t \in table : t.prijem_vydaj = "" \/ t.druh = ""}

\* The orders in which a query may return the transactions of a set.
Orders(S) ==
    {s \in [1..Cardinality(S) -> S] :
        \A i, j \in 1..Cardinality(S) : i # j => s[i] # s[j]}

\* POST /category-rules/apply_to_uncategorized/
ApplyToUncategorized ==
    /\ \E cache \in LoadCaches(rulesDb),
          order \in Orders(Uncategorized(store)) :
           LET done == ApplyInOrder(order, store, cache)
           IN  /\ store' = done.table
               /\ response' = Some([op |-> "apply",
                                    pks |-> {t.pk : t \in Uncategorized(store)},
                                    data |-> <<>>, ok |-> done.ok])
    /\ UNCHANGED <<runVars, ruleSet, txn, applied, parseVars>>

\* A rule for payments to Account that sets 50 on the percentages in S.
PctRule(S) ==
    [Rule("kmen", PROTIUCET, EXACT, Account, 100, "", "Rezie")
        EXCEPT !.set_mh_pct = IF "mh_pct" \in S THEN Some(50) ELSE None,
               !.set_sk_pct = IF "sk_pct" \in S THEN Some(50) ELSE None,
               !.set_xp_pct = IF "xp_pct" \in S THEN Some(50) ELSE None,
               !.set_fr_pct = IF "fr_pct" \in S THEN Some(50) ELSE None]

\* A rule for the counterparty name "n" that makes the transaction an
\* expense and sets the MH percentage.
NameRule(pct) ==
    [Rule("nazev", KEYWORD, CONTAINS, <<"n">>, 10, VYDAJ, "Najem")
        EXCEPT !.set_mh_pct = Some(pct)]

\* The rule tables of SpecEdit: the seeded rule, a rule that sets none,
\* one, two or all of the four percentages (to 50 each), or a rule for a
\* counterparty name.
EditRuleTables ==
    {SeedRules}
    \cup {{PctRule(S)} : S \in {{}, {"mh_pct"}, {"mh_pct", "sk_pct"},
                                 PctFields}}
    \cup {{NameRule(pct)} : pct \in {50, 100}}

InitEdit ==
    /\ rulesDb \in EditRuleTables
    /\ store = {}
    /\ batch = [r \in Runs |-> NoBatch]
    /\ pc = [r \in Runs |-> "idle"]
    /\ file = [r \in Runs |-> [parses |-> FALSE, length |-> 0]]
    /\ rows = [r \in Runs |-> <<>>]
    /\ results = [r \in Runs |-> <<>>]
    /\ rulesCache = [r \in Runs |-> None]
    /\ candidate = [r \in Runs |-> None]
    /\ pending = [r \in Runs |-> {}]
    /\ needsRollback = [r \in Runs |-> FALSE]
    /\ returned = [r \in Runs |-> "nothing"]
    /\ finishedBefore = [r \in Runs |-> {}]
    /\ ruleSet = {}
    /\ txn = None
    /\ applied = None
    /\ response = None
    /\ upload = <<>>
    /\ detected = None
    /\ sheet = None
    /\ emitted = None

\* One import run, and the API requests in any number and order.
NextEdit ==
    \/ \E f \in Files : f.length <= MaxEditRows /\ StartImport(1, f)
    \/ ParseCsv(1)
    \/ \E row \in RowInputs : ProcessRow(1, row)
    \/ SaveRow(1)
    \/ FinishImport(1)
    \/ \E t \in store, data \in PatchInputs : Patch(t, data)
    \/ \E ids \in SUBSET {t.pk : t \in store}, data \in BulkInputs :
           ids # {} /\ BulkUpdate(ids, data)
    \/ \E data \in ManualInputs : CreateManual(data)
    \/ ApplyToUncategorized

SpecEdit == InitEdit /\ [][NextEdit]_vars

\* ------------------------------------------------------------------------
\* SpecParse: one import run of a file given by its CSV rows
\* ------------------------------------------------------------------------
\* A CSV row is the sequence of its cells.  Header cells are written
\* without diacritics ("Typ uctu" is the header "Typ účtu").

\* The rows of the file the Creditas scan looks at: all_rows[:10].
ScanWindow == 10

\* The most data rows of a file of SpecParse.
MaxData == 1

CREDITAS_SIGNATURE_HEADERS == {"Typ uctu", "IBAN", "BIC"}

RAIFFEISEN_SIGNATURE_HEADERS ==
    {"Datum provedeni", "Zauctovana castka", "Nazev obchodnika"}

\* The columns the scan of _parse_creditas_csv looks for.
CreditasColumns == {"Castka", "Protiucet", "Platba/Vklad"}

\* The headers of the model that GENERIC_CSV_MAPPING and
\* RAIFFEISEN_CSV_MAPPING map to a field.
GenericMapped == {"Datum", "Castka"}

RaiffeisenMapped == RAIFFEISEN_SIGNATURE_HEADERS

\* set(row)
Cells(row) == {row[i] : i \in 1..Len(row)}

\* A detection that tests for the Raiffeisen headers first.
RaiffeisenFirst(headers) ==
    LET headers_set == Cells(headers)
    IN  IF RAIFFEISEN_SIGNATURE_HEADERS \cap headers_set # {}
        THEN "raiffeisen"
        ELSE IF CREDITAS_SIGNATURE_HEADERS \subseteq headers_set
        THEN "creditas"
        ELSE "generic"

\* TransactionImporter.detect_csv_format
DetectCsvFormat(headers) ==
    LET headers_set == Cells(headers)
    IN  IF CREDITAS_SIGNATURE_HEADERS \subseteq headers_set
        THEN "creditas"
        ELSE IF RAIFFEISEN_SIGNATURE_HEADERS \cap headers_set # {}
        THEN "raiffeisen"
        ELSE "generic"

\* not any(cell.strip() for cell in row)
EmptyRow(row) == \A i \in 1..Len(row) : Strip(row[i]) = ""

\* A scan for the header row that goes through the whole file.
HeaderRowAnywhere(all_rows) ==
    LET found == {i \in 1..Len(all_rows) :
                     CreditasColumns \subseteq Cells(all_rows[i])}
    IN  IF found = {} THEN None
        ELSE Some(CHOOSE i \in found : \A j \in found : i <= j)

\* The scan of _parse_creditas_csv: the position of the first of the rows
\* all_rows[:10] that has the three columns, or None.
HeaderRowIdx(all_rows) ==
    LET last  == IF Len(all_rows) < ScanWindow THEN Len(all_rows)
                 ELSE ScanWindow
        found == {i \in 1..last :
                     CreditasColumns \subseteq Cells(all_rows[i])}
    IN  IF found = {} THEN None
        ELSE Some(CHOOSE i \in found : \A j \in found : i <= j)

\* _parse_creditas_csv: it raises when the scan finds no header row;
\* every row after the header row that is not empty gives a row (the
\* mapped row always has the key "ucet").
ParseCreditasCsv(all_rows) ==
    LET idx == HeaderRowIdx(all_rows)
    IN  IF idx = None THEN [parses |-> FALSE, length |-> 0]
        ELSE [parses |-> TRUE,
              length |-> Cardinality({i \in (Val(idx) + 1)..Len(all_rows) :
                                         ~EmptyRow(all_rows[i])})]

\* _parse_generic_csv and _parse_raiffeisen_csv: a row that is not empty
\* gives a row when it has a cell under a header of the mapping.
ParseMappedCsv(headers, all_rows, mapped) ==
    [parses |-> TRUE,
     length |-> Cardinality(
         {i \in 2..Len(all_rows) :
             /\ ~EmptyRow(all_rows[i])
             /\ \E c \in 1..Len(headers) :
                    c <= Len(all_rows[i]) /\ headers[c] \in mapped})]

\* parse_csv on the rows of the file: whether it returns, and how many
\* rows.
ParseCsvFile(all_rows) ==
    IF all_rows = <<>> THEN [parses |-> TRUE, length |-> 0]
    ELSE LET headers    == Head(all_rows)
             csv_format == DetectCsvFormat(headers)
         IN  CASE csv_format = "creditas" -> ParseCreditasCsv(all_rows)
               [] csv_format = "raiffeisen" ->
                      ParseMappedCsv(headers, all_rows, RaiffeisenMapped)
               [] OTHER ->
                      ParseMappedCsv(headers, all_rows, GenericMapped)

\* str() of the ValueError _parse_creditas_csv raises.
HeaderRowMessage == <<"Nelze najit radek s hlavickami transakci">>

\* The header cells of the model in the order of their columns.
HeaderOrder ==
    <<"Typ uctu", "IBAN", "BIC", "Datum provedeni", "Zauctovana castka",
      "Nazev obchodnika", "Datum", "Castka", "Protiucet", "Platba/Vklad">>

\* The row with the header cells of S.
RowOf(S) == SelectSeq(HeaderOrder, LAMBDA h : h \in S)

\* A file: a first row, k rows before the header row (the metadata values,
\* then empty rows), the rows of hdr, and n data rows.
Upload(first, k, hdr, n) ==
    <<first>> \o [i \in 1..k |-> IF i = 1 THEN <<"x">> ELSE <<>>]
              \o hdr \o [i \in 1..n |-> <<"x">>]

\* No header row, the header row with the three columns, or one that
\* lacks one of them.
HeaderRows ==
    {<<>>, <<RowOf(CreditasColumns)>>}
    \cup {<<RowOf(CreditasColumns \ {h})>> : h \in CreditasColumns}

\* The files of SpecParse: the empty file, files whose first row has any
\* of the signature headers, and files with the Creditas metadata block
\* and a header row at any distance.
Uploads ==
    {<<>>}
    \cup {Upload(RowOf(S), 0, <<>>, n) :
             S \in SUBSET (CREDITAS_SIGNATURE_HEADERS
                           \cup RAIFFEISEN_SIGNATURE_HEADERS \cup {"Datum"}),
             n \in 0..MaxData}
    \cup {Upload(RowOf(S), k, hdr, n) :
             S \in {CREDITAS_SIGNATURE_HEADERS,
                    CREDITAS_SIGNATURE_HEADERS \cup CreditasColumns},
             k \in 0..ScanWindow, hdr \in HeaderRows, n \in 0..MaxData}

InitParse ==
    /\ rulesDb = SeedRules
    /\ store = {}
    /\ batch = [r \in Runs |-> NoBatch]
    /\ pc = [r \in Runs |-> "idle"]
    /\ file = [r \in Runs |-> [parses |-> FALSE, length |-> 0]]
    /\ rows = [r \in Runs |-> <<>>]
    /\ results = [r \in Runs |-> <<>>]
    /\ rulesCache = [r \in Runs |-> None]
    /\ candidate = [r \in Runs |-> None]
    /\ pending = [r \in Runs |-> {}]
    /\ needsRollback = [r \in Runs |-> FALSE]
    /\ returned = [r \in Runs |-> "nothing"]
    /\ finishedBefore = [r \in Runs |-> {}]
    /\ ruleSet = {}
    /\ txn = None
    /\ applied = None
    /\ response = None
    /\ upload \in Uploads
    /\ detected = None
    /\ sheet = None
    /\ emitted = None

\* import_csv is called with the file.
StartUpload == StartImport(1, ParseCsvFile(upload))

\* parse_csv on the file: detect_csv_format on the first row, then the
\* parser of the format.
ParseUpload ==
    /\ ParseCsvRun(1, HeaderRowMessage)
    /\ detected' = IF upload = <<>> THEN None
                   ELSE Some(DetectCsvFormat(Head(upload)))
    /\ UNCHANGED <<ruleSet, txn, applied, response, upload, sheet, emitted>>

NextParse ==
    \/ StartUpload
    \/ ParseUpload
    \/ \E row \in RowInputs : ProcessRow(1, row)
    \/ SaveRow(1)
    \/ FinishImport(1)

SpecParse == InitParse /\ [][NextParse]_vars

\* ------------------------------------------------------------------------
\* SpecCells: the parsers of the bank formats applied to rows of cells
\* ------------------------------------------------------------------------
\* A mapped row (a dict) is a function from its keys to their values.

\* dict.get(k, ""), and mapped_row.get(k) where only its truth is used.
Get(d, k) == IF k \in DOMAIN d THEN d[k] ELSE ""

\* d[k] = v
Put(d, k, v) == (k :> v) @@ d

\* CREDITAS_CSV_MAPPING.get(header): "" stands for None.
CreditasField(header) ==
    CASE header = "Muj ucet"               -> "_ucet"
      [] header = "Muj ucet-banka"         -> "_ucet_banka"
      [] header = "Nazev meho uctu"        -> "_skip"
      [] header = "Datum zauctovani"       -> "datum_zauctovani"
      [] header = "Datum provedeni"        -> "datum"
      [] header = "Protiucet"              -> "_protiucet"
      [] header = "Protiucet-banka"        -> "_protiucet_banka"
      [] header = "Nazev protiuctu"        -> "nazev_protiuctu"
      [] header = "Kod transakce"          -> "typ"
      [] header = "VS"                     -> "variabilni_symbol"
      [] header = "SS"                     -> "specificky_symbol"
      [] header = "KS"                     -> "konstantni_symbol"
      [] header = "E2E"                    -> "reference"
      [] header = "Zprava pro protistranu" -> "poznamka_zprava"
      [] header = "Poznamka"               -> "vlastni_poznamka"
      [] header = "Platba/Vklad"           -> "_skip"
      [] header = "Castka"                 -> "castka"
      [] header = "Mena"                   -> "mena"
      [] header = "Kategorie"              -> "_skip"
      [] OTHER                             -> ""

\* model_field.startswith("_") for the fields of CREDITAS_CSV_MAPPING.
InternalFields == {"_ucet", "_ucet_banka", "_protiucet", "_protiucet_banka"}

\* The loop over enumerate(headers) of _parse_creditas_csv from column idx
\* on: acc holds mapped_row and internal.
RECURSIVE MapCreditasCells(_, _, _, _)
MapCreditasCells(headers, row, idx, acc) ==
    IF idx > Len(headers) THEN acc
    ELSE IF idx > Len(row)
    THEN MapCreditasCells(headers, row, idx + 1, acc)
    ELSE LET value       == Strip(row[idx])
             model_field == CreditasField(headers[idx])
         IN  IF model_field = "" \/ model_field = "_skip"
             THEN MapCreditasCells(headers, row, idx + 1, acc)
             ELSE IF model_field \in InternalFields
             THEN MapCreditasCells(headers, row, idx + 1,
                      [acc EXCEPT !.internal = Put(@, model_field, value)])
             ELSE MapCreditasCells(headers, row, idx + 1,
                      [acc EXCEPT !.mapped_row = Put(@, model_field, value)])

\* f"{ucet}/{ucet_banka}" if ucet and ucet_banka else ucet
JoinAccount(number, banka) ==
    IF number # "" /\ banka # "" THEN number \o "/" \o banka ELSE number

\* The datum fallback of _parse_creditas_csv.
DatumFallback(mapped_row) ==
    IF Get(mapped_row, "datum") = ""
       /\ Get(mapped_row, "datum_zauctovani") # ""
    THEN Put(mapped_row, "datum", mapped_row["datum_zauctovani"])
    ELSE mapped_row

\* The body of the row loop of _parse_creditas_csv: the mapped row of one
\* row that is not empty.
CreditasRecord(headers, row) ==
    LET acc      == MapCreditasCells(headers, row, 1,
                        [mapped_row |-> << >>, internal |-> << >>])
        internal == acc.internal
        with_ucet ==
            Put(acc.mapped_row, "ucet",
                JoinAccount(Get(internal, "_ucet"),
                            Get(internal, "_ucet_banka")))
        protiucet       == Get(internal, "_protiucet")
        protiucet_banka == Get(internal, "_protiucet_banka")
        with_protiucet ==
            IF protiucet # ""
            THEN Put(with_ucet, "cislo_protiuctu",
                     IF protiucet_banka # ""
                     THEN protiucet \o "/" \o protiucet_banka
                     ELSE protiucet)
            ELSE with_ucet
        with_banka ==
            IF protiucet_banka # ""
            THEN Put(with_protiucet, "banka_protiuctu", protiucet_banka)
            ELSE with_protiucet
    IN  DatumFallback(with_banka)

\* The row loop of _parse_creditas_csv: one record for every row that is
\* not empty (the mapped row always has the key "ucet").
RECURSIVE CreditasRecords(_, _)
CreditasRecords(headers, data_rows) ==
    IF data_rows = <<>> THEN <<>>
    ELSE IF EmptyRow(Head(data_rows))
    THEN CreditasRecords(headers, Tail(data_rows))
    ELSE <<CreditasRecord(headers, Head(data_rows))>>
             \o CreditasRecords(headers, Tail(data_rows))

\* The header that occurs twice in a Raiffeisen file.
PuvodniHeader == "Puvodni castka a mena"

\* RAIFFEISEN_CSV_MAPPING.get(header): "" stands for None.
RaiffeisenField(header) ==
    CASE header = "Datum provedeni"     -> "datum"
      [] header = "Datum zauctovani"    -> "datum_zauctovani"
      [] header = "Cislo uctu"          -> "ucet"
      [] header = "Nazev uctu"          -> "_skip"
      [] header = "Kategorie transakce" -> "typ"
      [] header = "Cislo protiuctu"     -> "cislo_protiuctu"
      [] header = "Nazev protiuctu"     -> "nazev_protiuctu"
      [] header = "Typ transakce"       -> "typ_transakce"
      [] header = "Zprava"              -> "poznamka_zprava"
      [] header = "Poznamka"            -> "vlastni_poznamka"
      [] header = "VS"                  -> "variabilni_symbol"
      [] header = "KS"                  -> "konstantni_symbol"
      [] header = "SS"                  -> "specificky_symbol"
      [] header = "Zauctovana castka"   -> "castka"
      [] header = "Mena uctu"           -> "mena"
      [] header = "Poplatek"            -> "poplatky"
      [] header = "Id transakce"        -> "id_transakce"
      [] header = "Vlastni poznamka"    -> "_vlastni_poznamka_override"
      [] header = "Nazev obchodnika"    -> "nazev_merchanta"
      [] header = "Mesto"               -> "mesto"
      [] OTHER                          -> ""

\* puvodni_indices: the columns of the header that occurs twice, in the
\* order of the columns.
PuvodniIndices(headers) ==
    LET at == {i \in 1..Len(headers) : headers[i] = PuvodniHeader}
        RECURSIVE Ascending(_)
        Ascending(S) ==
            IF S = {} THEN <<>>
            ELSE LET m == CHOOSE i \in S : \A j \in S : i <= j
                 IN  <<m>> \o Ascending(S \ {m})
    IN  Ascending(at)

\* A choice of the field by the text of the header: every occurrence is
\* the amount.
PuvodniFieldByText(idx, puvodni_indices) ==
    IF Len(puvodni_indices) >= 2 THEN "puvodni_castka" ELSE ""

\* The field a cell under the header goes to: "" when it is dropped.
PuvodniField(idx, puvodni_indices) ==
    IF Len(puvodni_indices) >= 2
    THEN IF idx = puvodni_indices[1] THEN "puvodni_castka"
         ELSE IF idx = puvodni_indices[2] THEN "puvodni_mena"
         ELSE ""
    ELSE ""

\* The loop over enumerate(headers) of _parse_raiffeisen_csv from column
\* idx on: acc holds mapped_row and vlastni_poznamka_value.
RECURSIVE MapRaiffeisenCells(_, _, _, _)
MapRaiffeisenCells(headers, row, idx, acc) ==
    IF idx > Len(headers) THEN acc
    ELSE IF idx > Len(row)
    THEN MapRaiffeisenCells(headers, row, idx + 1, acc)
    ELSE LET value       == row[idx]
             model_field == RaiffeisenField(headers[idx])
             puvodni     == PuvodniField(idx, PuvodniIndices(headers))
         IN  IF headers[idx] = PuvodniHeader
             THEN MapRaiffeisenCells(headers, row, idx + 1,
                      IF puvodni = "" THEN acc
                      ELSE [acc EXCEPT !.mapped_row = Put(@, puvodni, value)])
             ELSE IF model_field = "" \/ model_field = "_skip"
             THEN MapRaiffeisenCells(headers, row, idx + 1, acc)
             ELSE IF model_field = "_vlastni_poznamka_override"
             THEN MapRaiffeisenCells(headers, row, idx + 1,
                      [acc EXCEPT !.vlastni_poznamka_value = Some(value)])
             ELSE MapRaiffeisenCells(headers, row, idx + 1,
                      [acc EXCEPT !.mapped_row = Put(@, model_field, value)])

\* The body of the row loop of _parse_raiffeisen_csv.
RaiffeisenRecord(headers, row) ==
    LET acc == MapRaiffeisenCells(headers, row, 1,
                   [mapped_row |-> << >>, vlastni_poznamka_value |-> None])
    IN  IF /\ IsSet(acc.vlastni_poznamka_value)
           /\ Val(acc.vlastni_poznamka_value) # ""
           /\ Get(acc.mapped_row, "vlastni_poznamka") = ""
        THEN Put(acc.mapped_row, "vlastni_poznamka",
                 Val(acc.vlastni_poznamka_value))
        ELSE acc.mapped_row

\* The row loop of _parse_raiffeisen_csv: a record for every row that is
\* not empty and has a mapped cell.
RECURSIVE RaiffeisenRecords(_, _)
RaiffeisenRecords(headers, data_rows) ==
    IF data_rows = <<>> THEN <<>>
    ELSE LET mapped_row == RaiffeisenRecord(headers, Head(data_rows))
             rest       == RaiffeisenRecords(headers, Tail(data_rows))
         IN  IF EmptyRow(Head(data_rows)) \/ DOMAIN mapped_row = {}
             THEN rest
             ELSE <<mapped_row>> \o rest

\* The columns cols of a row, in that order.
Arrangement(row, cols) == [i \in 1..Len(cols) |-> row[cols[i]]]

\* row[:k]
Take(row, k) == SubSeq(row, 1, IF k < Len(row) THEN k ELSE Len(row))

\* The columns of a Creditas file the model has.
CreditasHeaders ==
    <<"Muj ucet", "Muj ucet-banka", "Datum zauctovani", "Datum provedeni",
      "Protiucet", "Protiucet-banka", "Castka">>

\* The rows of the model under CreditasHeaders: every half of the account
\* pairs and every date cell is there or blank.
CreditasRows ==
    {<<ucet, ucet_banka, zauctovani, provedeni, protiucet, protiucet_banka,
       castka>> :
         ucet \in {"", "11"}, ucet_banka \in {"", "2250"},
         zauctovani \in {"", "15.01.2025"},
         provedeni \in {"", " ", "16.01.2025"},
         protiucet \in {"", "98"}, protiucet_banka \in {"", "1234"},
         castka \in {"", "100,00"}}

\* The orders of the columns: as in the export, reversed, and without the
\* booking date.
CreditasArrangements ==
    {<<1, 2, 3, 4, 5, 6, 7>>, <<7, 6, 5, 4, 3, 2, 1>>, <<1, 2, 4, 5, 6, 7>>}

\* The columns of a Raiffeisen file the model has.
RaiffeisenHeaders ==
    <<"Datum provedeni", PuvodniHeader, PuvodniHeader, "Zauctovana castka",
      "Vlastni poznamka", "Poznamka">>

RaiffeisenRows ==
    {<<"14.08.2025", puvodni_castka, puvodni_mena, "-50,00", vlastni,
       poznamka>> :
         puvodni_castka \in {"", "12,50"}, puvodni_mena \in {"", "EUR"},
         vlastni \in {"", "v"}, poznamka \in {"", "p"}}

\* The orders of the columns: as in the export, the two columns of the
\* header first or last or apart, one of them alone, and three of them.
RaiffeisenArrangements ==
    {<<1, 2, 3, 4, 5, 6>>, <<2, 3, 1, 4, 6, 5>>, <<6, 5, 4, 1, 2, 3>>,
     <<2, 4, 1, 5, 3, 6>>, <<1, 2, 4, 5, 6>>, <<2, 1, 3, 4, 2>>}

\* A file of one format: its header row and its data rows (one row, alone
\* or after an empty row, whole or cut short after k cells).
Sheets ==
    {[format |-> "creditas",
      headers |-> Arrangement(CreditasHeaders, cols),
      rows |-> before \o <<Take(Arrangement(row, cols), k)>>] :
         cols \in CreditasArrangements, row \in CreditasRows,
         before \in {<<>>, <<<<"", " ">>>>}, k \in {4, 7}}
    \cup
    {[format |-> "raiffeisen",
      headers |-> Arrangement(RaiffeisenHeaders, cols),
      rows |-> before \o <<Take(Arrangement(row, cols), k)>>] :
         cols \in RaiffeisenArrangements, row \in RaiffeisenRows,
         before \in {<<>>, <<<<"", " ">>>>}, k \in {2, 6}}

InitCells ==
    /\ rulesDb = SeedRules
    /\ store = {}
    /\ batch = [r \in Runs |-> NoBatch]
    /\ pc = [r \in Runs |-> "idle"]
    /\ file = [r \in Runs |-> [parses |-> FALSE, length |-> 0]]
    /\ rows = [r \in Runs |-> <<>>]
    /\ results = [r \in Runs |-> <<>>]
    /\ rulesCache = [r \in Runs |-> None]
    /\ candidate = [r \in Runs |-> None]
    /\ pending = [r \in Runs |-> {}]
    /\ needsRollback = [r \in Runs |-> FALSE]
    /\ returned = [r \in Runs |-> "nothing"]
    /\ finishedBefore = [r \in Runs |-> {}]
    /\ ruleSet = {}
    /\ txn = None
    /\ applied = None
    /\ response = None
    /\ upload = <<>>
    /\ detected = None
    /\ sheet \in {Some(sh) : sh \in Sheets}
    /\ emitted = None

\* _parse_creditas_csv on the header row and the data rows of the file.
ParseCreditasSheet ==
    /\ emitted = None
    /\ Val(sheet).format = "creditas"
    /\ emitted' = Some(CreditasRecords(Val(sheet).headers, Val(sheet).rows))
    /\ UNCHANGED <<importVars, ruleSet, txn, applied, response, upload,
                   detected, sheet>>

\* _parse_raiffeisen_csv on the header row and the data rows of the file.
ParseRaiffeisenSheet ==
    /\ emitted = None
    /\ Val(sheet).format = "raiffeisen"
    /\ emitted' = Some(RaiffeisenRecords(Val(sheet).headers,
                                         Val(sheet).rows))
    /\ UNCHANGED <<importVars, ruleSet, txn, applied, response, upload,
                   detected, sheet>>

NextCells == ParseCreditasSheet \/ ParseRaiffeisenSheet

SpecCells == InitCells /\ [][NextCells]_vars

\* ------------------------------------------------------------------------
\* Properties of the import runs
\* ------------------------------------------------------------------------

\* Row number i of run r has been processed.
Processed(r, i) == i \in 1..Len(results[r])

\* The row converts and the candidate built from it passes full_clean().
RowValid(r, i) ==
    /\ ConvertRowData(rows[r][i]).error = None
    /\ ValidationErrors(Candidate(rows[r][i], r, i, Val(rulesCache[r]))) = {}

RowId(r, i) == Strip(rows[r][i].id_transakce)

\* Row i of run r was rejected by the conversion or by the validation of
\* the candidate.
Rejected(r, i) ==
    /\ ~results[r][i].success
    /\ Val(results[r][i].error_message)[1] \in
           {"Unable to parse date: ", "Unable to parse decimal: ",
            "ValidationError"}

\* Row i of run r is persisted.
Persisted(r, i) == \E t \in store : t.pk = <<r, i>>

CompletedRun(r) == Ended(r) /\ batch[r].status = COMPLETED

\* Run b imported, after run a had ended and with no other run at work, the
\* file run a had imported into the empty store: n valid rows with n
\* distinct non-empty external IDs.
ImportedTwice(a, b) ==
    /\ a # b
    /\ Ended(a) /\ Ended(b)
    /\ finishedBefore[a] = {} /\ finishedBefore[b] = {a}
    /\ \A q \in Runs \ {a, b} : pc[q] = "idle"
    /\ file[a].parses /\ file[b].parses
    /\ file[a].length = file[b].length
    /\ rows[a] = rows[b]
    /\ \A i \in 1..Len(rows[a]) : RowId(a, i) # "" /\ RowValid(a, i)
    /\ \A i, j \in 1..Len(rows[a]) : i # j => RowId(a, i) # RowId(a, j)

\* C1: importing a file of N valid rows with N distinct non-empty external
\* IDs, none in the store, twice in sequence gives imported=N, skipped=0,
\* then imported=0, skipped=N, and the store holds exactly N transactions.
C1_Idempotent ==
    \A a, b \in Runs :
        ImportedTwice(a, b) =>
            /\ batch[a].imported_count = file[a].length
            /\ batch[a].skipped_count = 0
            /\ batch[b].imported_count = 0
            /\ batch[b].skipped_count = file[a].length
            /\ Cardinality(store) = file[a].length

C1_Witness ==
    \E a, b \in Runs : ImportedTwice(a, b) /\ file[a].length = 2

\* C2: no two persisted transactions have the same non-empty external ID,
\* whatever the runs and their interleaving.
C2_UniqueExternalId ==
    \A t, u \in store :
        (t.id_transakce # "" /\ t.id_transakce = u.id_transakce) => t = u

\* A run lost the race for an ID at save() and the ID is in the store.
C2_Witness ==
    \E r \in Runs : \E i \in 1..Len(results[r]) :
        /\ Ended(r)
        /\ ~results[r][i].success
        /\ Val(results[r][i].error_message) \in
               IntegrityMessages \cup {ConstraintMessage}
        /\ Exists(store, RowId(r, i))

\* One step of the batch record of run r: created in processing, then at
\* most one change of status, to completed or failed, and no change after.
BatchStep(r) ==
    CASE batch[r].status = "none" ->
             batch'[r] = batch[r] \/ batch'[r] = CreatedBatch
      [] batch[r].status = PROCESSING ->
             batch'[r].status \in {PROCESSING, COMPLETED, FAILED}
      [] OTHER -> batch'[r] = batch[r]

\* C3: a batch is in status processing from its creation, its status
\* changes at most once, to completed or failed, and a completed or failed
\* batch is never changed again by any step of any run.
C3_BatchLifecycle == [][\A r \in Runs : BatchStep(r)]_vars

\* A later run is at work while the batch of an ended run exists.
C3_Witness ==
    \E r, q \in Runs :
        /\ batch[r].status \in {COMPLETED, FAILED}
        /\ r \in finishedBefore[q]
        /\ pc[q] = "loop"
        /\ results[q] # <<>>

\* C4: every invocation of import_csv ends, completed with a summary
\* returned or failed with the exception raised; no ended invocation leaves
\* its batch in processing. (A run never goes back to idle once invoked, so
\* "idle or ended, again and again" says that an invoked run ends.)
C4_Terminates ==
    /\ \A r \in Runs : []<>(pc[r] = "idle" \/ Ended(r))
    /\ [](\A r \in Runs :
            Ended(r) =>
                \/ batch[r].status = COMPLETED /\ returned[r] = "summary"
                \/ batch[r].status = FAILED /\ returned[r] = "raised")

C4_Witness ==
    \E r, q \in Runs :
        /\ Ended(r) /\ batch[r].status = COMPLETED /\ file[r].length > 0
        /\ Ended(q) /\ batch[q].status = FAILED

DuplicateRow(r, j) ==
    /\ RowId(r, j) # ""
    /\ \E t \in store : t.id_transakce = RowId(r, j) /\ t.pk # <<r, j>>

\* C6: a row that fails conversion or validation does not stop the run:
\* every later row is processed and, when valid and not a duplicate,
\* persisted, and the run ends completed.
C6_RowFailureDoesNotStopRun ==
    \A r \in Runs :
        (Ended(r) /\ file[r].parses) =>
            \A i \in 1..Len(results[r]) :
                Rejected(r, i) =>
                    /\ batch[r].status = COMPLETED
                    /\ Len(results[r]) = file[r].length
                    /\ \A j \in (i + 1)..Len(results[r]) :
                           (RowValid(r, j) /\ ~DuplicateRow(r, j))
                               => Persisted(r, j)

\* The step processes a row of run r whose external ID is in the store.
ProcessesStoredId(r) ==
    /\ pc[r] = "loop"
    /\ Len(rows'[r]) = Len(rows[r]) + 1
    /\ Strip(rows'[r][Len(rows'[r])].id_transakce) # ""
    /\ Exists(store, Strip(rows'[r][Len(rows'[r])].id_transakce))

\* C7: a row whose non-empty external ID is already in the store is not
\* persisted, leaves the store unchanged and is counted as skipped, not as
\* an error.
C7_StoredIdIsSkipped ==
    [][\A r \in Runs :
          ProcessesStoredId(r) =>
              /\ Len(results'[r]) = Len(results[r]) + 1
              /\ IsSkipped(results'[r][Len(results'[r])])
              /\ ~IsError(results'[r][Len(results'[r])])
              /\ store' = store
              /\ pending' = pending]_vars

\* C8: a row rejected for a malformed date or decimal literal or for a
\* validation failure is counted in the error count of its run and never in
\* the skipped count, whatever the text of the literal.
C8_RejectedRowIsError ==
    \A r \in Runs :
        CompletedRun(r) =>
            LET rejected == {i \in 1..Len(results[r]) : Rejected(r, i)}
                failed   == {i \in 1..Len(results[r]) : ~results[r][i].success}
            IN  /\ batch[r].error_count >= Cardinality(rejected)
                /\ batch[r].skipped_count
                       <= Cardinality(failed) - Cardinality(rejected)

\* Row i of run r passed the existence check and reached save() with a
\* valid candidate.
ReachedSave(r, i) ==
    /\ Processed(r, i)
    /\ RowId(r, i) # ""
    /\ RowValid(r, i)
    /\ \/ results[r][i].success
       \/ Val(results[r][i].error_message) \notin
              {DuplicateMessage(RowId(r, i)), BrokenTransactionMessage}

\* C9: when two runs both pass the existence check for the same new
\* external ID, exactly one persists the row and in the other the row fails
\* at save() and is counted as an error, not as skipped.
C9_RaceLoserIsError ==
    \A r, q \in Runs : \A i \in 1..Len(results[r]), j \in 1..Len(results[q]) :
        (/\ r # q
         /\ CompletedRun(r) /\ CompletedRun(q)
         /\ ReachedSave(r, i) /\ ReachedSave(q, j)
         /\ RowId(r, i) = RowId(q, j))
        => \/ /\ Persisted(r, i) /\ ~Persisted(q, j)
              /\ IsError(results[q][j])
           \/ /\ Persisted(q, j) /\ ~Persisted(r, i)
              /\ IsError(results[r][i])


\* ------------------------------------------------------------------------
\* Properties of the rule cascade
\* ------------------------------------------------------------------------

\* The active rules of type mt in the rule table that match value.
Matching(mt, value) ==
    {r \in ruleSet :
        r.is_active /\ r.match_type = mt /\ RuleMatches(r, value)}

\* The targets of rule were written on t to give result, and nothing else
\* was.
OnlySettingsOf(rule, t, result) ==
    /\ result.prijem_vydaj =
           IF rule.set_prijem_vydaj # "" THEN rule.set_prijem_vydaj
           ELSE t.prijem_vydaj
    /\ result.druh = IF rule.set_druh # "" THEN rule.set_druh ELSE t.druh
    /\ result.detail =
           IF rule.set_detail # "" THEN rule.set_detail ELSE t.detail
    /\ result.kmen = IF rule.set_kmen # "" THEN rule.set_kmen ELSE t.kmen

\* C10: the cascade is counterparty account, then merchant, then keyword:
\* when an active counterparty-account rule matches the counterparty
\* account, the rule applied is a counterparty-account rule and only its
\* settings are written, also when an active merchant rule matches the
\* merchant name; a merchant rule is applied only when no
\* counterparty-account rule matched, a keyword rule only when neither a
\* counterparty-account rule nor a merchant rule matched.
C10_CascadeOrder ==
    IsSet(applied) =>
        LET t       == Val(txn)
            m       == Val(applied).matched_rule
            result  == Val(applied).transaction
            byUcet  == Matching(PROTIUCET, t.cislo_protiuctu)
            byName  == Matching(MERCHANT, t.nazev_merchanta)
        IN  /\ byUcet # {} =>
                   /\ IsSet(m) /\ Val(m) \in byUcet
                   /\ OnlySettingsOf(Val(m), t, result)
            /\ (IsSet(m) /\ Val(m).match_type = MERCHANT) =>
                   /\ byUcet = {}
                   /\ Val(m) \in byName
                   /\ OnlySettingsOf(Val(m), t, result)
            /\ (IsSet(m) /\ Val(m).match_type = KEYWORD) =>
                   /\ byUcet = {} /\ byName = {}
                   /\ OnlySettingsOf(Val(m), t, result)

\* The rules were applied to a transaction that an active
\* counterparty-account rule and an active merchant rule both match.
C10_Witness ==
    /\ IsSet(applied)
    /\ Matching(PROTIUCET, Val(txn).cislo_protiuctu) # {}
    /\ Matching(MERCHANT, Val(txn).nazev_merchanta) # {}
    /\ Val(Val(applied).matched_rule).set_druh = "Fixni"
    /\ Val(applied).transaction.druh = "Fixni"

\* The categorization fields of a transaction, the targets of a rule.
CategoryFields ==
    {"prijem_vydaj", "vlastni_nevlastni", "dane", "druh", "detail", "kmen",
     "mh_pct", "sk_pct", "xp_pct", "fr_pct", "projekt", "produkt",
     "podskupina"}

\* The value of categorization field f of transaction t.
Field(t, f) ==
    CASE f = "prijem_vydaj"      -> t.prijem_vydaj
      [] f = "vlastni_nevlastni" -> t.vlastni_nevlastni
      [] f = "dane"              -> t.dane
      [] f = "druh"              -> t.druh
      [] f = "detail"            -> t.detail
      [] f = "kmen"              -> t.kmen
      [] f = "mh_pct"            -> t.mh_pct
      [] f = "sk_pct"            -> t.sk_pct
      [] f = "xp_pct"            -> t.xp_pct
      [] f = "fr_pct"            -> t.fr_pct
      [] f = "projekt"           -> t.projekt
      [] f = "produkt"           -> t.produkt
      [] f = "podskupina"        -> t.podskupina

\* Field f is populated on the rule: a text target is not empty, a
\* nullable target is not null.
Populated(rule, f) ==
    CASE f = "prijem_vydaj"      -> rule.set_prijem_vydaj # ""
      [] f = "vlastni_nevlastni" -> rule.set_vlastni_nevlastni # ""
      [] f = "dane"              -> rule.set_dane # None
      [] f = "druh"              -> rule.set_druh # ""
      [] f = "detail"            -> rule.set_detail # ""
      [] f = "kmen"              -> rule.set_kmen # ""
      [] f = "mh_pct"            -> rule.set_mh_pct # None
      [] f = "sk_pct"            -> rule.set_sk_pct # None
      [] f = "xp_pct"            -> rule.set_xp_pct # None
      [] f = "fr_pct"            -> rule.set_fr_pct # None
      [] f = "projekt"           -> rule.set_projekt # None
      [] f = "produkt"           -> rule.set_produkt # None
      [] f = "podskupina"        -> rule.set_podskupina # None

\* The value a rule gives to field f, when populated.
Target(rule, f) ==
    CASE f = "prijem_vydaj"      -> rule.set_prijem_vydaj
      [] f = "vlastni_nevlastni" -> rule.set_vlastni_nevlastni
      [] f = "dane"              -> rule.set_dane[1]
      [] f = "druh"              -> rule.set_druh
      [] f = "detail"            -> rule.set_detail
      [] f = "kmen"              -> rule.set_kmen
      [] f = "mh_pct"            -> rule.set_mh_pct[1]
      [] f = "sk_pct"            -> rule.set_sk_pct[1]
      [] f = "xp_pct"            -> rule.set_xp_pct[1]
      [] f = "fr_pct"            -> rule.set_fr_pct[1]
      [] f = "projekt"           -> rule.set_projekt
      [] f = "produkt"           -> rule.set_produkt
      [] f = "podskupina"        -> rule.set_podskupina

\* The search value of a match dimension for transaction t.
DimensionValue(mt, t) ==
    CASE mt = PROTIUCET -> t.cislo_protiuctu
      [] mt = MERCHANT  -> t.nazev_merchanta
      [] mt = KEYWORD   ->
             JoinNonEmpty(<<t.poznamka_zprava, t.vlastni_poznamka,
                            t.nazev_protiuctu>>)

\* The active rules of the table that match the transaction, in any
\* dimension.
AllMatching(t) ==
    UNION {Matching(mt, DimensionValue(mt, t)) : mt \in MatchTypes}

\* C11: one call of apply_autodetection_rules applies at most one rule:
\* every categorization field that the chosen rule does not populate keeps
\* its value, whatever other matching rules populate it; without a chosen
\* rule nothing is written.
C11_AtMostOneRule ==
    IsSet(applied) =>
        LET t      == Val(txn)
            m      == Val(applied).matched_rule
            result == Val(applied).transaction
        IN  \A f \in CategoryFields :
                (m = None \/ ~Populated(Val(m), f))
                    => Field(result, f) = Field(t, f)

\* Rules of two dimensions match, and a rule that was not chosen populates
\* a field that the chosen one leaves alone.
C11_Witness ==
    /\ IsSet(applied)
    /\ IsSet(Val(applied).matched_rule)
    /\ \E r \in AllMatching(Val(txn)) :
           /\ r.match_type # Val(Val(applied).matched_rule).match_type
           /\ \E f \in CategoryFields :
                  /\ Populated(r, f)
                  /\ ~Populated(Val(Val(applied).matched_rule), f)
                  /\ Target(r, f) # Field(Val(txn), f)
    /\ \E r \in AllMatching(Val(txn)) :
           /\ r # Val(Val(applied).matched_rule)
           /\ r.match_type = Val(Val(applied).matched_rule).match_type

\* C12: within one dimension the rule that fires is a matching active rule
\* of the smallest priority number: no other matching active rule of the
\* dimension has a strictly lower one.
C12_LowestPriorityFires ==
    IsSet(applied) =>
        LET t == Val(txn)
            m == Val(applied).matched_rule
        IN  IsSet(m) =>
                \A r \in Matching(Val(m).match_type,
                                   DimensionValue(Val(m).match_type, t)) :
                    Val(m).priority <= r.priority

\* Two active rules of one dimension with different priorities match.
C12_Witness ==
    /\ IsSet(applied)
    /\ IsSet(Val(applied).matched_rule)
    /\ \E r \in Matching(PROTIUCET, Val(txn).cislo_protiuctu) :
           r.priority > Val(Val(applied).matched_rule).priority
    /\ Val(Val(applied).matched_rule).match_type = PROTIUCET

\* The rules of the table that are inactive and would match t.
InactiveMatching(t) ==
    {r \in ruleSet :
        ~r.is_active /\ RuleMatches(r, DimensionValue(r.match_type, t))}

\* C13: a rule that is inactive when the rules are loaded is never applied:
\* the rule that fires is an active rule of the table, and a transaction
\* that only inactive rules match is left as it was.
C13_InactiveNeverApplied ==
    IsSet(applied) =>
        LET t      == Val(txn)
            m      == Val(applied).matched_rule
            result == Val(applied).transaction
        IN  /\ IsSet(m) => (Val(m) \in ruleSet /\ Val(m).is_active)
            /\ AllMatching(t) = {} => (m = None /\ result = t)

\* The rules were applied to a transaction that an inactive rule matches
\* and no active rule does.
C13_Witness ==
    /\ IsSet(applied)
    /\ InactiveMatching(Val(txn)) # {}
    /\ AllMatching(Val(txn)) = {}

\* C14: when a rule fires, every categorization field populated on the
\* rule is overwritten with the rule's value and every other one keeps the
\* value the transaction had.
C14_SparseOverlay ==
    IsSet(applied) =>
        LET t      == Val(txn)
            m      == Val(applied).matched_rule
            result == Val(applied).transaction
        IN  IsSet(m) =>
                \A f \in CategoryFields :
                    Field(result, f) =
                        IF Populated(Val(m), f) THEN Target(Val(m), f)
                        ELSE Field(t, f)

\* A rule fired on a partly categorized transaction: it overwrote a field
\* that had a value and left another field with its value.
C14_Witness ==
    /\ IsSet(applied)
    /\ IsSet(Val(applied).matched_rule)
    /\ Val(txn).detail = "puvodni"
    /\ Val(applied).transaction.detail = "puvodni"
    /\ Val(txn).dane = TRUE
    /\ Val(applied).transaction.dane = FALSE
    /\ Val(applied).transaction.kmen = "MH"

\* C15: a row that is persisted with an amount other than zero has the
\* flag of the rule that fired when that rule sets one, and otherwise
\* income for a positive amount and expense for a negative one.
C15_FlagFromSign ==
    (IsSet(applied) /\ Val(applied).derived /\ Val(applied).errors = {}
        /\ Val(Val(txn).castka) # 0) =>
        LET m     == Val(applied).matched_rule
            saved == Val(applied).candidate
        IN  IF IsSet(m) /\ Val(m).set_prijem_vydaj # ""
            THEN saved.prijem_vydaj = Val(m).set_prijem_vydaj
            ELSE saved.prijem_vydaj =
                     IF Val(Val(txn).castka) > 0 THEN PRIJEM ELSE VYDAJ

\* A rule that sets no flag fired on a row with a negative amount, and the
\* row is accepted.
C15_Witness ==
    /\ IsSet(applied) /\ Val(applied).derived /\ Val(applied).errors = {}
    /\ IsSet(Val(applied).matched_rule)
    /\ Val(Val(applied).matched_rule).set_prijem_vydaj = ""
    /\ Val(Val(txn).castka) < 0
    /\ Val(applied).candidate.prijem_vydaj = VYDAJ

\* ------------------------------------------------------------------------
\* Properties of the persisted transactions under imports and requests
\* ------------------------------------------------------------------------

\* The amount and the income/expense flag of t agree.
SignAgrees(t) ==
    /\ ~(Val(t.castka) > 0 /\ t.prijem_vydaj = VYDAJ)
    /\ ~(Val(t.castka) < 0 /\ t.prijem_vydaj = PRIJEM)

\* C16: in every reachable state no persisted transaction has a positive
\* amount with the expense flag or a negative amount with the income flag.
C16_SignFlagInvariant == \A t \in store : SignAgrees(t)

\* The step is the API request recorded in response'.
RequestStep(op) ==
    /\ UNCHANGED runVars
    /\ IsSet(response')
    /\ Val(response').op = op

\* The percentages of t after the percentages named in data are written.
SumAfter(t, data) ==
    LET pct(f) == IF f \in DOMAIN data THEN data[f] ELSE t[f]
    IN  pct("mh_pct") + pct("sk_pct") + pct("xp_pct") + pct("fr_pct")

\* The request recorded in response' would give a transaction another sum
\* of percentages than 0 or 100.
WouldBreakSum ==
    LET req == Val(response')
    IN  \/ /\ req.op \in {"patch", "bulk"}
           /\ \E t \in store :
                  t.pk \in req.pks /\ SumAfter(t, req.data) \notin {0, 100}
        \/ /\ req.op = "create"
           /\ SumAfter([f \in PctFields |-> 0], req.data) \notin {0, 100}

\* C17: the four percentages of every persisted transaction sum to 0 or to
\* 100, and a request that would give another sum is rejected and leaves
\* the store as it was.
C17_PctSumInvariant ==
    /\ [](\A t \in store \cup UNION {pending[r] : r \in Runs} :
            PctSum(t) \in {0, 100})
    /\ [][(/\ \/ RequestStep("patch") \/ RequestStep("bulk")
               \/ RequestStep("create")
            /\ WouldBreakSum)
              => (~Val(response').ok /\ store' = store)]_vars

\* A transaction with percentages that sum to 100 is persisted, and the
\* last request, which would have given another sum, was rejected.
C17_Witness ==
    /\ \E t \in store : PctSum(t) = 100 /\ t.mh_pct = 50
    /\ IsSet(response)
    /\ Val(response).op = "patch"
    /\ Val(response).data = ("mh_pct" :> 100)
    /\ ~Val(response).ok

\* The source (bank) fields of a transaction.
SourceFields ==
    {"datum", "castka", "cislo_protiuctu", "nazev_protiuctu",
     "nazev_merchanta", "poznamka_zprava", "vlastni_poznamka",
     "id_transakce"}

\* The app fields the code validates: a request that writes none of them
\* cannot be refused for the values it gives.
ValidatedFields == PctFields \cup {"prijem_vydaj", "produkt", "podskupina"}

\* C18: no step changes a source field of a persisted transaction, and an
\* edit request that names a source field (and writes no validated field)
\* succeeds and leaves the field as it was.
C18_SourceFieldsImmutable ==
    [][/\ \A t \in store, u \in store' :
              t.pk = u.pk => \A f \in SourceFields : u[f] = t[f]
       /\ (/\ RequestStep("patch")
           /\ DOMAIN Val(response').data \cap SourceFields # {}
           /\ DOMAIN Val(response').data \cap ValidatedFields = {})
              => Val(response').ok]_vars

\* ------------------------------------------------------------------------
\* Properties of the parsing of a file
\* ------------------------------------------------------------------------

\* h is a cell of the row.
Has(row, h) == \E i \in 1..Len(row) : row[i] = h

\* C19: detect_csv_format answers Creditas when the headers have all of
\* 'Typ uctu', 'IBAN' and 'BIC'; otherwise Raiffeisen when they have at
\* least one of 'Datum provedeni', 'Zauctovana castka' and 'Nazev
\* obchodnika'; otherwise generic.  It answers for every first row.
C19_DetectFormat ==
    /\ (upload # <<>> /\ pc[1] \notin {"idle", "parse"}) => IsSet(detected)
    /\ IsSet(detected) =>
           LET headers == Head(upload)
           IN  Val(detected) =
                   IF /\ Has(headers, "Typ uctu")
                      /\ Has(headers, "IBAN")
                      /\ Has(headers, "BIC")
                   THEN "creditas"
                   ELSE IF \/ Has(headers, "Datum provedeni")
                           \/ Has(headers, "Zauctovana castka")
                           \/ Has(headers, "Nazev obchodnika")
                   THEN "raiffeisen"
                   ELSE "generic"

\* A first row with the three Creditas headers and a Raiffeisen header
\* was detected as Creditas.
C19_Witness ==
    /\ detected = Some("creditas")
    /\ Has(Head(upload), "Datum provedeni")

\* The file has the Creditas metadata headers in its first row.
CreditasFile ==
    /\ upload # <<>>
    /\ \A h \in {"Typ uctu", "IBAN", "BIC"} : Has(Head(upload), h)

\* Row i of the file has the three transaction columns.
TransactionHeaders(i) ==
    /\ Has(upload[i], "Castka")
    /\ Has(upload[i], "Protiucet")
    /\ Has(upload[i], "Platba/Vklad")

\* C20: for a Creditas file none of whose first ten rows has all of
\* 'Castka', 'Protiucet' and 'Platba/Vklad', import_csv raises: no row is
\* processed, nothing is persisted and the batch ends as failed.
C20_NoHeaderRowFails ==
    (/\ CreditasFile
     /\ \A i \in 1..Len(upload) : i <= 10 => ~TransactionHeaders(i))
        => /\ pc[1] \in {"idle", "parse", "done"}
           /\ results[1] = <<>>
           /\ pending[1] = {}
           /\ store = {}
           /\ pc[1] = "done" =>
                  /\ returned[1] = "raised"
                  /\ batch[1].status = FAILED

\* The run of a Creditas file whose header row is the eleventh row has
\* ended with a failed batch.
C20_Witness ==
    /\ CreditasFile
    /\ Len(upload) > 10
    /\ TransactionHeaders(11)
    /\ \A i \in 1..10 : ~TransactionHeaders(i)
    /\ pc[1] = "done"
    /\ batch[1].status = FAILED

\* ------------------------------------------------------------------------
\* Properties of the parsers of the bank formats
\* ------------------------------------------------------------------------

\* The parser of the format has given the records of the file.
Parsed(format) == IsSet(emitted) /\ Val(sheet).format = format

\* The rows of the file that are not empty: the parsers give one record
\* for each, in this order.
DataRows == SelectSeq(Val(sheet).rows, LAMBDA row : ~EmptyRow(row))

\* The cell of the row in the column of header h without the white space
\* around it, "" when the file has no such column or the row ends before it.
Under(row, h) ==
    LET at == {i \in 1..Len(Val(sheet).headers) :
                  Val(sheet).headers[i] = h /\ i <= Len(row)}
    IN  IF at = {} THEN "" ELSE Strip(row[CHOOSE i \in at : TRUE])

\* The date of a record is the booking date of its row when the cell
\* 'Datum provedeni' of the row is blank.
FallsBackToBookingDate ==
    Parsed("creditas") =>
        /\ Len(Val(emitted)) = Len(DataRows)
        /\ \A k \in 1..Len(DataRows) :
               Under(DataRows[k], "Datum provedeni") = "" =>
                   Get(Val(emitted)[k], "datum")
                       = Under(DataRows[k], "Datum zauctovani")

\* C21: every record the Creditas parser gives has a date that is not
\* empty: when the cell 'Datum provedeni' of its row is blank the date is
\* the value of 'Datum zauctovani' of the row.
C21_DateNeverEmpty ==
    /\ FallsBackToBookingDate
    /\ Parsed("creditas") =>
           \A k \in 1..Len(Val(emitted)) : Get(Val(emitted)[k], "datum") # ""

\* The field is number/banka exactly when both halves are there, and the
\* one half that is there otherwise.
JoinedOrBareHalf(field, number, banka) ==
    /\ (number # "" /\ banka # "") <=> field = number \o "/" \o banka
    /\ (number # "" /\ banka = "") => field = number
    /\ (number = "" /\ banka # "") => field = banka

\* C24: in a record of the Creditas parser the own account and the
\* counterparty account are 'number/bankcode' exactly when both halves of
\* the pair are not empty, and the bare half when only one half is not
\* empty.
C24_AccountJoin ==
    Parsed("creditas") =>
        \A k \in 1..Len(DataRows) :
            /\ JoinedOrBareHalf(Get(Val(emitted)[k], "ucet"),
                                Under(DataRows[k], "Muj ucet"),
                                Under(DataRows[k], "Muj ucet-banka"))
            /\ JoinedOrBareHalf(Get(Val(emitted)[k], "cislo_protiuctu"),
                                Under(DataRows[k], "Protiucet"),
                                Under(DataRows[k], "Protiucet-banka"))

\* The columns of the header 'Puvodni castka a mena'.
PuvodniColumns ==
    {i \in 1..Len(Val(sheet).headers) : Val(sheet).headers[i] = PuvodniHeader}

\* C25: when the header 'Puvodni castka a mena' occurs twice, the cell
\* under the first occurrence is the original amount of the record and the
\* cell under the second the original currency, for every row and in
\* every order of the columns.
C25_PositionalColumns ==
    (Parsed("raiffeisen") /\ Cardinality(PuvodniColumns) = 2) =>
        /\ Len(Val(emitted)) = Len(DataRows)
        /\ \A k \in 1..Len(DataRows) :
               \A first, second \in PuvodniColumns :
                   first < second =>
                       /\ first <= Len(DataRows[k]) =>
                              Get(Val(emitted)[k], "puvodni_castka")
                                  = DataRows[k][first]
                       /\ second <= Len(DataRows[k]) =>
                              /\ "puvodni_mena" \in DOMAIN Val(emitted)[k]
                              /\ Val(emitted)[k]["puvodni_mena"]
                                     = DataRows[k][second]

\* A file whose two columns of the header are the last ones and apart
\* from the first column gave a record with the amount and the currency.
C25_Witness ==
    /\ Parsed("raiffeisen")
    /\ PuvodniColumns = {5, 6}
    /\ Len(Val(emitted)) = 1
    /\ Get(Val(emitted)[1], "puvodni_castka") = "12,50"
    /\ Get(Val(emitted)[1], "puvodni_mena") = "EUR"

\* ------------------------------------------------------------------------
\* Properties of the rule cascade over equal priorities
\* ------------------------------------------------------------------------

\* C22: when active rules of one dimension with the same priority match a
\* transaction, the rule that fires is fixed by the rule table: every load
\* of the same table gives the rule that has fired.
C22_DeterministicTieBreak ==
    IsSet(applied) =>
        \A cache \in LoadCaches(ruleSet) :
            MatchedRule(cache, Val(txn)) = Val(applied).matched_rule

\* ------------------------------------------------------------------------
\* A refused regex pattern is a non-match (SpecRegex)
\* ------------------------------------------------------------------------

\* The stored rules in regex mode whose pattern does not compile.
RefusedRules ==
    {u \in rulesDb : u.match_mode = REGEX
                      /\ (RegexMalformed(u.match_value)
                          \/ RegexOverflows(u.match_value))}

\* Row i of run r ended with the error of the regex engine.
RegexErrorRaised(r, i) ==
    /\ ~results[r][i].success
    /\ results[r][i].error_message = Some(OverflowMessage)

\* C26: a rule in regex mode whose pattern is malformed is a non-match for
\* every search value and never raises: no row of a run over a table with
\* such a rule ends with the error of the regex engine, and no inserted row
\* carries the targets of such a rule.
C26_MalformedRegexNoMatch ==
    RefusedRules # {} =>
        \A r \in Runs :
            /\ \A i \in 1..Len(results[r]) : ~RegexErrorRaised(r, i)
            /\ \A t \in pending[r], u \in RefusedRules : t.druh # u.set_druh

\* ------------------------------------------------------------------------
\* One rule snapshot per run (SpecCache)
\* ------------------------------------------------------------------------

\* The rows run r has inserted.
InsertedBy(r) == pending[r] \cup {t \in store : t.import_batch_id = r}

\* The step in which run r goes from parsing to its first row.
EntersLoop(r) == pc[r] = "parse" /\ pc'[r] = "loop"

\* Every row run r has inserted is the candidate its row gives under the
\* cache the run holds.
MatchedAgainstSnapshot(r) ==
    \A t \in InsertedBy(r) :
        \E i \in 1..Len(rows[r]) :
            /\ ~IsSet(ConvertRowData(rows[r][i]).error)
            /\ t = Candidate(rows[r][i], r, i, Val(rulesCache[r]))

\* C23: each run loads its rule cache once, after parsing and before the
\* first row, from the rule table of that moment, also on an importer that
\* holds the cache of an earlier run; no later step of the run replaces
\* it, whatever happens to the rule table; and every row the run inserts
\* is matched against it.
C23_OneSnapshotPerRun ==
    [][\A r \in Runs :
          /\ EntersLoop(r) =>
                 /\ rows[r] = <<>>
                 /\ IsSet(rulesCache'[r])
                 /\ Val(rulesCache'[r]) \in LoadCaches(rulesDb)
          /\ (pc[r] \in {"loop", "save", "done"}) =>
                 rulesCache'[r] = rulesCache[r]
          /\ (pc[r] \in {"loop", "save"}) => MatchedAgainstSnapshot(r)]_vars

\* A later run on the importer of an ended run is past its first row with
\* a snapshot that is neither the earlier run's nor what the rule table,
\* changed during the run, would give now; it has inserted a row.
C23_Witness ==
    \E r \in Runs :
        /\ r - 1 \in Runs
        /\ Ended(r - 1)
        /\ IsSet(rulesCache[r - 1])
        /\ pc[r] = "loop"
        /\ pending[r] # {}
        /\ rulesCache[r] # rulesCache[r - 1]
        /\ Val(rulesCache[r]) \notin LoadCaches(rulesDb)

\* ------------------------------------------------------------------------
\* The counts and the error list of a completed run (Spec)
\* ------------------------------------------------------------------------

\* The 1-based positions of the rows of run r that were not imported.
NotImported(r) == {i \in 1..Len(results[r]) : ~results[r][i].success}

\* The error list of batch b names the positions in S, each once, in
\* ascending order.
ListsInFileOrder(b, S) ==
    /\ Len(b.error_details) = Cardinality(S)
    /\ \A k \in 1..Len(b.error_details) :
           /\ IsSet(b.error_details[k].row)
           /\ Val(b.error_details[k].row) \in S
    /\ \A j, k \in 1..Len(b.error_details) :
           j < k => Val(b.error_details[j].row) < Val(b.error_details[k].row)

\* C27: for every run that ends completed, imported + skipped + errors is
\* the total row count recorded after parsing, and the error list holds
\* one entry per row that was not imported (skipped + errors entries), with
\* the row's 1-based position, in file order.
C27_CountsAddUp ==
    \A r \in Runs :
        batch[r].status = COMPLETED =>
            /\ batch[r].imported_count + batch[r].skipped_count
                   + batch[r].error_count = batch[r].total_rows
            /\ batch[r].total_rows = file[r].length
            /\ Len(batch[r].error_details)
                   = batch[r].skipped_count + batch[r].error_count
            /\ ListsInFileOrder(batch[r], NotImported(r))

\* A completed run with an imported, a skipped and an error row.
C27_Witness ==
    \E r \in Runs :
        /\ batch[r].status = COMPLETED
        /\ batch[r].imported_count > 0
        /\ batch[r].skipped_count > 0
        /\ batch[r].error_count > 0

\* ------------------------------------------------------------------------
\* The imported count and the persisted rows of a completed run (Spec)
\* ------------------------------------------------------------------------

\* The persisted transactions that carry the batch identifier of run r.
PersistedOf(r) == {t \in store : t.import_batch_id = r}

\* C28: for every run that ends completed, the number of persisted
\* transactions that carry the batch's identifier is the batch's imported
\* count, also when a row of the run failed at persistence time inside the
\* atomic block of the run.
C28_ImportedCountIsPersisted ==
    \A r \in Runs :
        batch[r].status = COMPLETED =>
            Cardinality(PersistedOf(r)) = batch[r].imported_count

\* ------------------------------------------------------------------------
\* Rows without an external ID (Spec)
\* ------------------------------------------------------------------------

\* Row i of run r has been processed and has no external ID.
IdLess(r, i) ==
    /\ i \in 1..Len(results[r])
    /\ Strip(rows[r][i].id_transakce) = ""

\* Row i of run r is persisted.
IsPersisted(r, i) == \E t \in store : t.pk = <<r, i>>

\* An ID-less row that converts does not end as a duplicate.
NeverDuplicate ==
    \A r \in Runs :
        \A i \in 1..Len(results[r]) :
            (IdLess(r, i) /\ ~IsSet(ConvertRowData(rows[r][i]).error)) =>
                ~IsSkipped(results[r][i])

\* C29: a row whose external ID is empty or whitespace is never treated
\* as a duplicate: when two completed runs have each imported the same
\* ID-less row, two transactions are persisted, one for each run.
C29_IdLessNeverDuplicate ==
    /\ NeverDuplicate
    /\ \A q, r \in Runs :
           \A i \in 1..Len(results[q]), j \in 1..Len(results[r]) :
               (/\ q # r
                /\ batch[q].status = COMPLETED
                /\ batch[r].status = COMPLETED
                /\ IdLess(q, i)
                /\ IdLess(r, j)
                /\ rows[q][i] = rows[r][j]
                /\ results[q][i].success
                /\ results[r][j].success)
               => IsPersisted(q, i) /\ IsPersisted(r, j)

\* ------------------------------------------------------------------------
\* What apply_to_uncategorized changes (SpecEdit)
\* ------------------------------------------------------------------------

\* Transaction u is what the rules of the table make of t, and its flag or
\* its kind is not that of t.
RuleChangedFlagOrKind(t, u) ==
    /\ u.prijem_vydaj # t.prijem_vydaj \/ u.druh # t.druh
    /\ \E cache \in LoadCaches(rulesDb) :
           /\ IsSet(MatchedRule(cache, t))
           /\ u = ApplyAutodetectionRules(cache, t)

\* C30: apply_to_uncategorized changes a persisted transaction only if its
\* income/expense flag or its kind was empty before the call and the rule
\* that fired changed its flag or its kind; every other transaction, and so
\* every one whose flag and kind are both non-empty, is left as it was, and
\* none is added or removed.
C30_ApplyFrame ==
    [][RequestStep("apply") =>
          /\ {u.pk : u \in store'} = {t.pk : t \in store}
          /\ \A t \in store :
                 t \notin store' =>
                     /\ t.prijem_vydaj = "" \/ t.druh = ""
                     /\ \E u \in store' :
                            u.pk = t.pk /\ RuleChangedFlagOrKind(t, u)]_vars

\* The last request was an apply_to_uncategorized that went through: a
\* transaction that was uncategorized before it has its flag and its kind
\* now, and a transaction that was not uncategorized is persisted too.
C30_Witness ==
    /\ IsSet(response)
    /\ Val(response).op = "apply"
    /\ Val(response).ok
    /\ \E t \in store :
           /\ t.pk \in Val(response).pks
           /\ t.prijem_vydaj # ""
           /\ t.druh # ""
    /\ \E t \in store : t.pk \notin Val(response).pks

====
